---- MODULE Spec2Model ----
(***************************************************************************)
(* GraphQL Federation gateway core: concurrent sub-query execution         *)
(* (pkg/federation/engine.go), response merging (pkg/merger), dependency   *)
(* validation (pkg/planner, pkg/federation/planner.go) and the WASM HTTP   *)
(* call handler (pkg/caller).                                              *)
(***************************************************************************)
EXTENDS Integers, Sequences, FiniteSets, TLC

\* ------------------------------------------------------------------ bounds
\* Largest number of sub-queries in an execution plan.
MaxSubQueries == 2
\* The engine's QueryTimeout, in clock ticks.
QueryTimeout == 1

\* ------------------------------------------------------------- JSON values
\* interface{} values as produced by the JSON decoder, tagged by dynamic type.
Null == [t |-> "null"]
Num(n) == [t |-> "num", n |-> n]
Str(s) == [t |-> "str", s |-> s]
Obj(f) == [t |-> "obj", o |-> f]
Arr(a) == [t |-> "arr", a |-> a]

IsObj(v) == v.t = "obj"
IsArr(v) == v.t = "arr"

\* ------------------------------------------------------------ shared names
NoErr == "<nil>"
NilResponse == [nil |-> TRUE]
DeadlineExceeded == "context deadline exceeded"

\* e.federationConfig.Services (names) and the names a plan may carry.  A
\* plan is built from an earlier configuration snapshot, so it may name a
\* service the engine's current configuration no longer holds.
ConfiguredServices == {"users-service", "products-service"}
PlanServices == ConfiguredServices \cup {"reviews-service"}

\* Plans: CreateExecutionPlan emits one SubQuery per service name.
InjectiveSeqs(S, n) == {q \in [1..n -> S] : \A i, j \in 1..n : q[i] = q[j] => i = j}
Plans == UNION {InjectiveSeqs(PlanServices, n) : n \in 1..MaxSubQueries}

MergeStrategies == {"shallow", "deep"}

\* ---------------------------------------------------------- response merger
\* DefaultMergerConfig().MaxDepth
MaxDepth == 10

ConflictPolicies == {"first", "last", "merge", "error"}

\* A failed merge step (a non-nil error result).
MergeFailure == [t |-> "fail"]
IsFailure(v) == v.t = "fail"

\* A GraphQLError: Message, and Extensions["code"] / Extensions["service"]
\* ("" when the key is absent).
GqlError(msg, code, svc) == [Message |-> msg, Code |-> code, Service |-> svc]

\* Faulty variant: the entry does not name the failed service.
ServiceErrorEntry_NoService(resp) ==
  GqlError("Service " \o resp.Service \o " error: " \o resp.Error, "SERVICE_ERROR", "")

ServiceErrorEntry(resp) ==
  GqlError("Service " \o resp.Service \o " error: " \o resp.Error, "SERVICE_ERROR", resp.Service)

getErrorSeverity(e) ==
  CASE e.Code = "INTERNAL_ERROR" -> 100
    [] e.Code = "SERVICE_ERROR" -> 90
    [] e.Code = "VALIDATION_ERROR" -> 80
    [] e.Code = "AUTHORIZATION_ERROR" -> 70
    [] e.Code = "RATE_LIMIT_ERROR" -> 60
    [] OTHER -> 50

ErrorKey(e) == IF e.Code # "" THEN e.Message \o ":" \o e.Code ELSE e.Message

\* First occurrence of every key, in order.
RECURSIVE UniqueErrors(_, _)
UniqueErrors(errs, seen) ==
  IF errs = <<>> THEN <<>>
  ELSE IF ErrorKey(Head(errs)) \in seen THEN UniqueErrors(Tail(errs), seen)
  ELSE <<Head(errs)>> \o UniqueErrors(Tail(errs), seen \cup {ErrorKey(Head(errs))})

\* sort.Slice on a short slice is an insertion sort: x moves left past every
\* element of strictly lower severity.
RECURSIVE InsertBySeverity(_, _)
InsertBySeverity(sorted, x) ==
  IF sorted = <<>> THEN <<x>>
  ELSE LET last == sorted[Len(sorted)] IN
       IF getErrorSeverity(x) > getErrorSeverity(last)
       THEN InsertBySeverity(SubSeq(sorted, 1, Len(sorted) - 1), x) \o <<last>>
       ELSE sorted \o <<x>>

RECURSIVE SortBySeverity(_)
SortBySeverity(errs) ==
  IF errs = <<>> THEN <<>>
  ELSE InsertBySeverity(SortBySeverity(SubSeq(errs, 1, Len(errs) - 1)), errs[Len(errs)])

MergeErrors(errs) == IF errs = <<>> THEN <<>> ELSE SortBySeverity(UniqueErrors(errs, {}))

\* deduplicateArray: the first occurrence of every structurally distinct item.
RECURSIVE deduplicateArray(_, _)
deduplicateArray(arr, seen) ==
  IF arr = <<>> THEN <<>>
  ELSE IF Head(arr) \in seen THEN deduplicateArray(Tail(arr), seen)
  ELSE <<Head(arr)>> \o deduplicateArray(Tail(arr), seen \cup {Head(arr)})

RECURSIVE ConcatArrays(_)
ConcatArrays(items) ==
  IF items = <<>> THEN <<>>
  ELSE (IF IsArr(Head(items)) THEN Head(items).a ELSE <<>>) \o ConcatArrays(Tail(items))

mergeArrays(arrays) == Arr(deduplicateArray(ConcatArrays(arrays), {}))

\* Faulty variant: nothing is merged recursively.
shouldMergeRecursively_Never(existing, value) == FALSE

shouldMergeRecursively(existing, value) ==
  \/ IsObj(existing) /\ IsObj(value)
  \/ IsArr(existing) /\ IsArr(value)

resolvePrimitiveConflict(values, policy) ==
  IF values = <<>> THEN Null
  ELSE CASE policy = "first" -> values[1]
         [] policy = "last" -> values[Len(values)]
         [] policy = "error" -> MergeFailure
         [] OTHER -> values[1]

NonNull(items) == SelectSeq(items, LAMBDA v : v # Null)

RECURSIVE mergeDataDeep(_, _, _), mergeObjects(_, _, _), FoldField(_, _, _, _),
          attemptMerge(_, _, _), resolveFieldConflict(_, _, _)

\* attemptMerge: same dynamic type merges, anything else keeps the first.
attemptMerge(existing, value, policy) ==
  IF existing.t = value.t
  THEN CASE existing.t = "obj" -> mergeObjects(<<existing, value>>, 0, policy)
         [] existing.t = "arr" -> mergeArrays(<<existing, value>>)
         [] existing.t = "str" -> Str(existing.s \o " " \o value.s)
         [] existing.t = "num" -> Num(existing.n + value.n)
         [] OTHER -> existing
  ELSE existing

\* Faulty variant: the policy is not looked at.
resolveFieldConflict_KeepExisting(existing, value, policy) ==
  IF existing = Null THEN value ELSE existing

\* resolveFieldConflict under NullPolicySkip and an empty FieldMapping.
resolveFieldConflict(existing, value, policy) ==
  IF value = Null THEN existing
  ELSE IF existing = Null THEN value
  ELSE CASE policy = "first" -> existing
         [] policy = "last" -> value
         [] policy = "merge" -> attemptMerge(existing, value, policy)
         [] policy = "error" -> MergeFailure
         [] OTHER -> existing

\* One key of mergeObjects: acc is result[key], vals the later objects' values.
FoldField(acc, vals, depth, policy) ==
  IF IsFailure(acc) \/ vals = <<>> THEN acc
  ELSE LET v == Head(vals)
           next == IF shouldMergeRecursively(acc, v)
                   THEN mergeDataDeep(<<acc, v>>, depth + 1, policy)
                   ELSE resolveFieldConflict(acc, v, policy)
       IN FoldField(next, Tail(vals), depth, policy)

mergeObjects(objects, depth, policy) ==
  LET objs == SelectSeq(objects, IsObj)
      keys == UNION {DOMAIN objs[i].o : i \in 1..Len(objs)}
      valsOf(k) == LET having == SelectSeq(objs, LAMBDA ob : k \in DOMAIN ob.o)
                   IN [i \in 1..Len(having) |-> having[i].o[k]]
      merged == [k \in keys |-> FoldField(Head(valsOf(k)), Tail(valsOf(k)), depth, policy)]
  IN IF \E k \in keys : IsFailure(merged[k]) THEN MergeFailure ELSE Obj(merged)

mergeDataDeep(datas, depth, policy) ==
  IF depth > MaxDepth THEN MergeFailure
  ELSE IF datas = <<>> THEN Null
  ELSE IF Len(datas) = 1 THEN datas[1]
  ELSE LET dataItems == NonNull(datas) IN
       IF dataItems = <<>> THEN Null
       ELSE CASE IsObj(dataItems[1]) -> mergeObjects(dataItems, depth, policy)
              [] IsArr(dataItems[1]) -> mergeArrays(dataItems)
              [] OTHER -> resolvePrimitiveConflict(dataItems, policy)

\* extractExtensions: one entry per response that carries Headers.
ExtensionOf(resp) ==
  Obj([k \in {"service", "headers", "latency"} \cup
              (IF resp.Metadata = Null THEN {} ELSE {"metadata"}) |->
         CASE k = "service" -> Str(resp.Service)
           [] k = "headers" -> [t |-> "headers", of |-> resp.Service]
           [] k = "latency" -> Str(ToString(resp.Latency))
           [] OTHER -> resp.Metadata])

extractExtensions(resps) ==
  LET with == SelectSeq(resps, LAMBDA r : r.HasHeaders)
  IN [i \in 1..Len(with) |-> ExtensionOf(with[i])]

\* MergeExtensions: per key attemptMerge, and the later value when that fails.
RECURSIVE FoldExtension(_, _, _)
FoldExtension(acc, vals, policy) ==
  IF vals = <<>> THEN acc
  ELSE LET m == attemptMerge(acc, Head(vals), policy)
       IN FoldExtension(IF IsFailure(m) THEN Head(vals) ELSE m, Tail(vals), policy)

MergeExtensions(exts, policy) ==
  IF exts = <<>> THEN Null
  ELSE LET keys == UNION {DOMAIN exts[i].o : i \in 1..Len(exts)}
           valsOf(k) == LET having == SelectSeq(exts, LAMBDA e : k \in DOMAIN e.o)
                        IN [i \in 1..Len(having) |-> having[i].o[k]]
       IN Obj([k \in keys |-> FoldExtension(Head(valsOf(k)), Tail(valsOf(k)), policy)])

mergeExtensionsDeep(resps, policy) ==
  LET merged == MergeExtensions(extractExtensions(resps), policy)
      base == IF merged = Null THEN <<>> ELSE merged.o
      meta == Obj([k \in {"merged_services", "merge_strategy", "response_count"} |->
                 CASE k = "merged_services" -> Arr([i \in 1..Len(resps) |-> Str(resps[i].Service)])
                   [] k = "merge_strategy" -> Str("deep")
                   [] OTHER -> Num(Len(resps))])
  IN Obj([k \in DOMAIN base \cup {"merge_metadata"} |->
            IF k = "merge_metadata" THEN meta ELSE base[k]])

\* The error list both strategies collect, in response order.
RECURSIVE CollectErrors(_)
CollectErrors(resps) ==
  IF resps = <<>> THEN <<>>
  ELSE LET r == Head(resps) IN
       (IF r.Error # NoErr THEN <<ServiceErrorEntry(r)>> ELSE r.Errors)
         \o CollectErrors(Tail(resps))

\* mergeShallow's data loop: a key already present goes through
\* resolveFieldConflict, and a failed resolution keeps the existing value.
RECURSIVE ShallowData(_, _, _)
ShallowData(dataMap, resps, policy) ==
  IF resps = <<>> THEN dataMap
  ELSE LET r == Head(resps)
           use == r.Error = NoErr /\ r.Data # Null /\ IsObj(r.Data)
           keys == IF use THEN DOMAIN dataMap \cup DOMAIN r.Data.o ELSE DOMAIN dataMap
           next == [k \in keys |->
                      IF ~use \/ k \notin DOMAIN r.Data.o THEN dataMap[k]
                      ELSE IF k \notin DOMAIN dataMap THEN r.Data.o[k]
                      ELSE LET m == resolveFieldConflict(dataMap[k], r.Data.o[k], policy)
                           IN IF IsFailure(m) THEN dataMap[k] ELSE m]
       IN ShallowData(next, Tail(resps), policy)

\* Results of MergeResponses: the GraphQLResponse and the error ("<nil>" for none).
MergeOk(data, errs, ext) ==
  [response |-> [Data |-> data, Errors |-> errs, Extensions |-> ext], err |-> NoErr]
MergeErr(msg) == [response |-> NilResponse, err |-> msg]

mergeShallow(resps, policy) ==
  MergeOk(Obj(ShallowData(<<>>, resps, policy)),
          MergeErrors(CollectErrors(resps)),
          MergeExtensions(extractExtensions(resps), policy))

mergeDeep(resps, policy) ==
  LET allErrors == CollectErrors(resps)
      validResponses == SelectSeq(resps, LAMBDA r : r.Error = NoErr /\ r.Data # Null)
      mergedData == mergeDataDeep([i \in 1..Len(validResponses) |-> validResponses[i].Data],
                                  0, policy)
  IN IF validResponses = <<>> THEN MergeOk(Null, allErrors, Obj(<<>>))
     ELSE IF IsFailure(mergedData) THEN MergeErr("deep merge failed")
     ELSE MergeOk(mergedData, MergeErrors(allErrors), mergeExtensionsDeep(validResponses, policy))

\* Faulty variant: an empty list is merged like any other.
MergeResponses_NoEmptyCase(resps, strategy, policy) ==
  IF strategy = "deep" THEN mergeDeep(resps, policy) ELSE mergeShallow(resps, policy)

MergeResponses(resps, strategy, policy) ==
  IF resps = <<>> THEN MergeOk(Null, <<>>, Null)
  ELSE IF strategy = "deep" THEN mergeDeep(resps, policy)
  ELSE mergeShallow(resps, policy)

\* --------------------------------------------- the merger on shared maps
\* Go maps are references: a value taken from a response and stored in a
\* result is the response's own map. The heap holds every map at an address;
\* a value is a scalar, an array, or the address of a map.
Ref(a) == [t |-> "ref", a |-> a]
IsRef(v) == v.t = "ref"
\* m[k] = v
SetKey(m, k, v) == [x \in DOMAIN m \cup {k} |-> IF x = k THEN v ELSE m[x]]
WriteKey(h, a, k, v) == [h EXCEPT ![a] = SetKey(@, k, v)]
MergeStep(h, v) == [h |-> h, v |-> v]
\* One statement after another: what the first left is what the rest starts from.
Then(step, Rest(_)) == CHOOSE out \in {Rest(r) : r \in {step}} : TRUE

\* The maps of a JSON value, the innermost first and the value's own map
\* last, as they lie on the heap from address base + 1 on.
RECURSIVE MapCount(_), KeyOrder(_), MapsBefore(_, _, _), Cells(_, _), FieldCells(_, _, _, _)
MapCount(v) ==
  IF ~IsObj(v) THEN 0 ELSE 1 + MapsBefore(v.o, KeyOrder(DOMAIN v.o), Cardinality(DOMAIN v.o) + 1)
KeyOrder(keys) ==
  IF keys = {} THEN <<>> ELSE LET k == CHOOSE k \in keys : TRUE IN <<k>> \o KeyOrder(keys \ {k})
MapsBefore(o, ks, i) == IF i <= 1 THEN 0 ELSE MapsBefore(o, ks, i - 1) + MapCount(o[ks[i - 1]])
FieldCells(base, o, ks, i) ==
  IF i > Len(ks) THEN <<>>
  ELSE Cells(base + MapsBefore(o, ks, i), o[ks[i]]) \o FieldCells(base, o, ks, i + 1)
Cells(base, v) ==
  IF ~IsObj(v) THEN <<>>
  ELSE LET ks == KeyOrder(DOMAIN v.o)
           at(k) == base + MapsBefore(v.o, ks, 1 + CHOOSE i \in 1..Len(ks) : ks[i] = k)
       IN FieldCells(base, v.o, ks, 1) \o
          <<[k \in DOMAIN v.o |-> IF IsObj(v.o[k]) THEN Ref(at(k)) ELSE v.o[k]]>>
Intern(h, v) ==
  IF ~IsObj(v) THEN MergeStep(h, v)
  ELSE MergeStep(h \o Cells(Len(h), v), Ref(Len(h) + MapCount(v)))

\* The JSON value an address stands for.
RECURSIVE Deref(_, _)
Deref(h, v) ==
  IF IsRef(v) THEN Obj([k \in DOMAIN h[v.a] |-> Deref(h, h[v.a][k])]) ELSE v

\* Faulty variant: the first object is merged into, in place.
ResultMap_FirstObject(h, objects) ==
  IF objects = <<>> THEN [h |-> Append(h, <<>>), a |-> Len(h) + 1]
  ELSE [h |-> h, a |-> objects[1].a]

\* result := make(map[string]interface{}) in mergeObjects
ResultMap(h, objects) == [h |-> Append(h, <<>>), a |-> Len(h) + 1]

RECURSIVE mergeDataDeepHeap(_, _, _, _), mergeObjectsHeap(_, _, _, _),
          MergeEachObject(_, _, _, _, _), MergeEachKey(_, _, _, _, _, _),
          attemptMergeHeap(_, _, _, _), resolveFieldConflictHeap(_, _, _, _)

attemptMergeHeap(h, existing, value, policy) ==
  IF existing.t = value.t
  THEN CASE existing.t = "ref" -> mergeObjectsHeap(h, <<existing, value>>, 0, policy)
         [] existing.t = "arr" -> MergeStep(h, mergeArrays(<<existing, value>>))
         [] existing.t = "str" -> MergeStep(h, Str(existing.s \o " " \o value.s))
         [] existing.t = "num" -> MergeStep(h, Num(existing.n + value.n))
         [] OTHER -> MergeStep(h, existing)
  ELSE MergeStep(h, existing)

resolveFieldConflictHeap(h, existing, value, policy) ==
  IF value = Null THEN MergeStep(h, existing)
  ELSE IF existing = Null THEN MergeStep(h, value)
  ELSE CASE policy = "first" -> MergeStep(h, existing)
         [] policy = "last" -> MergeStep(h, value)
         [] policy = "merge" -> attemptMergeHeap(h, existing, value, policy)
         [] policy = "error" -> MergeStep(h, MergeFailure)
         [] OTHER -> MergeStep(h, existing)

\* for key, value := range objMap { ... result[key] = ... }
MergeEachKey(h, a, src, keys, depth, policy) ==
  IF keys = {} THEN MergeStep(h, Ref(a))
  ELSE LET k == CHOOSE k \in keys : TRUE
           value == h[src][k]
       IN IF k \notin DOMAIN h[a]
          THEN MergeEachKey(WriteKey(h, a, k, value), a, src, keys \ {k}, depth, policy)
          ELSE LET existing == h[a][k]
               IN Then(IF (IsRef(existing) /\ IsRef(value)) \/ (IsArr(existing) /\ IsArr(value))
                       THEN mergeDataDeepHeap(h, <<existing, value>>, depth + 1, policy)
                       ELSE resolveFieldConflictHeap(h, existing, value, policy),
                       LAMBDA r :
                         IF IsFailure(r.v) THEN r
                         ELSE MergeEachKey(WriteKey(r.h, a, k, r.v), a, src, keys \ {k},
                                           depth, policy))

\* for _, obj := range objects { ... }
MergeEachObject(h, a, objects, depth, policy) ==
  IF objects = <<>> THEN MergeStep(h, Ref(a))
  ELSE Then(MergeEachKey(h, a, Head(objects).a, DOMAIN h[Head(objects).a], depth, policy),
            LAMBDA r : IF IsFailure(r.v) THEN r
                       ELSE MergeEachObject(r.h, a, Tail(objects), depth, policy))

mergeObjectsHeap(h, objects, depth, policy) ==
  LET objs == SelectSeq(objects, IsRef)
      result == ResultMap(h, objs)
  IN MergeEachObject(result.h, result.a, objs, depth, policy)

mergeDataDeepHeap(h, datas, depth, policy) ==
  IF depth > MaxDepth THEN MergeStep(h, MergeFailure)
  ELSE IF datas = <<>> THEN MergeStep(h, Null)
  ELSE IF Len(datas) = 1 THEN MergeStep(h, datas[1])
  ELSE LET dataItems == NonNull(datas) IN
       IF dataItems = <<>> THEN MergeStep(h, Null)
       ELSE CASE IsRef(dataItems[1]) -> mergeObjectsHeap(h, dataItems, depth, policy)
              [] IsArr(dataItems[1]) -> MergeStep(h, mergeArrays(dataItems))
              [] OTHER -> MergeStep(h, resolvePrimitiveConflict(dataItems, policy))

\* mergeShallow's loops over the responses and their keys.
RECURSIVE ShallowEachKey(_, _, _, _, _), ShallowEachResponse(_, _, _, _)
ShallowEachKey(h, a, src, keys, policy) ==
  IF keys = {} THEN h
  ELSE LET k == CHOOSE k \in keys : TRUE
           value == h[src][k]
       IN IF k \notin DOMAIN h[a]
          THEN ShallowEachKey(WriteKey(h, a, k, value), a, src, keys \ {k}, policy)
          ELSE Then(resolveFieldConflictHeap(h, h[a][k], value, policy),
                    LAMBDA r : ShallowEachKey(IF IsFailure(r.v) THEN r.h
                                              ELSE WriteKey(r.h, a, k, r.v),
                                              a, src, keys \ {k}, policy))
ShallowEachResponse(h, a, resps, policy) ==
  IF resps = <<>> THEN h
  ELSE LET resp == Head(resps)
       IN Then(IF resp.Error = NoErr /\ IsRef(resp.Data)
               THEN ShallowEachKey(h, a, resp.Data.a, DOMAIN h[resp.Data.a], policy) ELSE h,
               LAMBDA filled : ShallowEachResponse(filled, a, Tail(resps), policy))

\* MergeExtensions over the entries of extractExtensions, each a new map
\* that holds the response's own metadata map.
RECURSIVE ExtensionEachKey(_, _, _, _, _), ExtensionEach(_, _, _, _)
ExtensionEachKey(h, a, ext, keys, policy) ==
  IF keys = {} THEN h
  ELSE LET k == CHOOSE k \in keys : TRUE
       IN IF k \notin DOMAIN h[a]
          THEN ExtensionEachKey(WriteKey(h, a, k, ext[k]), a, ext, keys \ {k}, policy)
          ELSE Then(attemptMergeHeap(h, h[a][k], ext[k], policy),
                    LAMBDA r : ExtensionEachKey(IF IsFailure(r.v) THEN WriteKey(r.h, a, k, ext[k])
                                                ELSE WriteKey(r.h, a, k, r.v),
                                                a, ext, keys \ {k}, policy))
ExtensionEach(h, a, exts, policy) ==
  IF exts = <<>> THEN h
  ELSE Then(ExtensionEachKey(h, a, Head(exts), DOMAIN Head(exts), policy),
            LAMBDA merged1 : ExtensionEach(merged1, a, Tail(exts), policy))
ExtensionEntries(resps) ==
  LET with == SelectSeq(resps, LAMBDA r : r.HasHeaders)
  IN [i \in 1..Len(with) |->
        [k \in {"service", "headers", "latency"} \cup
               (IF with[i].Metadata = Null THEN {} ELSE {"metadata"}) |->
           CASE k = "service" -> Str(with[i].Service)
             [] k = "headers" -> [t |-> "headers", of |-> with[i].Service]
             [] k = "latency" -> Str(ToString(with[i].Latency))
             [] OTHER -> with[i].Metadata]]
MergeExtensionsHeap(h, exts, policy) ==
  IF exts = <<>> THEN MergeStep(h, Null)
  ELSE MergeStep(ExtensionEach(Append(h, <<>>), Len(h) + 1, exts, policy), Ref(Len(h) + 1))

\* What a call returns, read off the heap, and the heap it leaves.
MergeOutcome(h, data, errs, ext) ==
  [h |-> h, result |-> MergeOk(Deref(h, data), errs, Deref(h, ext))]

mergeShallowHeap(h, resps, policy) ==
  LET dataMap == Len(h) + 1
  IN Then(ShallowEachResponse(Append(h, <<>>), dataMap, resps, policy),
          LAMBDA filled :
            Then(MergeExtensionsHeap(filled, ExtensionEntries(resps), policy),
                 LAMBDA ext : MergeOutcome(ext.h, Ref(dataMap),
                                           MergeErrors(CollectErrors(resps)), ext.v)))

\* mergeDeep once the data have been merged: the extensions, with
\* merge_metadata written into them.
DeepExtensions(mergedData, validResponses, allErrors, policy) ==
  LET meta == Obj([k \in {"merged_services", "merge_strategy", "response_count"} |->
                 CASE k = "merged_services" ->
                        Arr([i \in 1..Len(validResponses) |-> Str(validResponses[i].Service)])
                   [] k = "merge_strategy" -> Str("deep")
                   [] OTHER -> Num(Len(validResponses))])
  IN Then(MergeExtensionsHeap(mergedData.h, ExtensionEntries(validResponses), policy),
          LAMBDA ext :
            LET base == IF ext.v = Null THEN Append(ext.h, <<>>) ELSE ext.h
                at == IF ext.v = Null THEN Len(ext.h) + 1 ELSE ext.v.a
            IN MergeOutcome(WriteKey(base, at, "merge_metadata", meta), mergedData.v,
                            MergeErrors(allErrors), Ref(at)))

mergeDeepHeap(h, resps, policy) ==
  LET allErrors == CollectErrors(resps)
      validResponses == SelectSeq(resps, LAMBDA r : r.Error = NoErr /\ r.Data # Null)
  IN IF validResponses = <<>> THEN [h |-> h, result |-> MergeOk(Null, allErrors, Obj(<<>>))]
     ELSE Then(mergeDataDeepHeap(h, [i \in 1..Len(validResponses) |-> validResponses[i].Data],
                                 0, policy),
               LAMBDA mergedData :
                 IF IsFailure(mergedData.v)
                 THEN [h |-> mergedData.h, result |-> MergeErr("deep merge failed")]
                 ELSE DeepExtensions(mergedData, validResponses, allErrors, policy))

MergeResponsesHeap(h, resps, strategy, policy) ==
  IF resps = <<>> THEN [h |-> h, result |-> MergeOk(Null, <<>>, Null)]
  ELSE IF strategy = "deep" THEN mergeDeepHeap(h, resps, policy)
  ELSE mergeShallowHeap(h, resps, policy)

\* The responses with their data and metadata maps put on a heap.
RECURSIVE InternResponses(_, _)
InternResponses(h, resps) ==
  IF resps = <<>> THEN [h |-> h, resps |-> <<>>]
  ELSE LET r == resps[Len(resps)]
           front == InternResponses(h, SubSeq(resps, 1, Len(resps) - 1))
           data == Intern(front.h, r.Data)
           meta == Intern(data.h, r.Metadata)
       IN [h |-> meta.h,
           resps |-> Append(front.resps, [r EXCEPT !.Data = data.v, !.Metadata = meta.v])]

VARIABLES
  \* ---- one request in Engine.executePlan / executeSubQueries
  subQueries,     \* plan.SubQueries: sequence of service names
  mergeStrategy,  \* plan.MergeStrategy
  pc,             \* planned, dispatching, collecting, returned, done, failed
  now,            \* clock ticks since queryCtx was created
  taskPc,         \* per sub-query goroutine: idle, lookup, health, call, done
  startTime,      \* per goroutine: startTime := time.Now()
  taskResponse,   \* per goroutine: the local `response` it built
  responseCh,     \* buffered channel of <<index, response>>
  errCh,          \* buffered channel of errors
  closerPc,       \* the wg.Wait goroutine: wait, closedResponse, closed
  responses,      \* the coordinator's result slice
  completed,      \* the coordinator's counter
  coordErr,       \* error returned by executeSubQueries
  finalResponse,  \* GraphQLResponse returned by executePlan
  reqErr,         \* error returned by executePlan
  isHealthy,      \* per goroutine: what e.caller.IsHealthy returned
  called          \* the sub-queries e.caller.Call was invoked for

execVars == <<subQueries, mergeStrategy, pc, now, taskPc, startTime, taskResponse,
              responseCh, errCh, closerPc, responses, completed, coordErr,
              finalResponse, reqErr, isHealthy, called>>

VARIABLES
  \* ---- dependency validation: Planner.ValidatePlan, FederatedPlanner.AnalyzeDependencies
  depMode,        \* which of the two runs: plan, fed, or idle
  depPc,          \* validate, cycles, build, sort, done
  dependencies,   \* plan.Dependencies: service -> the services it depends on
  planNames,      \* the ServiceNames of plan.SubQueries
  keysTodo,       \* keys the outer `range dependencies` loop has not reached
  visited,        \* checkCircularDependencies: visited
  visiting,       \* checkCircularDependencies: visiting
  stack,          \* the visit() calls in progress: <<service, deps not yet visited>>
  entities,       \* AnalyzeDependencies' input
  graph,          \* dependencyGraph: provider -> dependents, in insertion order
  inDegree,       \* topologicalSort: inDegree
  queue,          \* topologicalSort: queue
  order,          \* topologicalSort: result
  depErr          \* the error returned

depVars == <<depMode, depPc, dependencies, planNames, keysTodo, visited, visiting, stack,
             entities, graph, inDegree, queue, order, depErr>>

VARIABLES
  \* ---- one service call: WASMCaller.makeWASMHTTPCall, WASMHTTPCallHandler
  callPc,          \* idle, dispatched, waiting, resolved, returned
  processed,       \* WASMHTTPCallHandler.processed
  responseChan,    \* WASMHTTPCallHandler.responseChan (capacity 1)
  errorChan,       \* WASMHTTPCallHandler.errorChan (capacity 1)
  responseClosed,  \* responseChan has been closed
  errorClosed,     \* errorChan has been closed
  outcomes,        \* what Wait (or the failed dispatch) has returned to the caller
  deliveries,      \* how often the host has run the call's callback
  crashed          \* a goroutine has panicked

callVars == <<callPc, processed, responseChan, errorChan, responseClosed, errorClosed,
              outcomes, deliveries, crashed>>

VARIABLES
  \* ---- sub-query planning: Engine.createExecutionPlan and the Planner
  planMode,        \* idle; engine: createExecutionPlan; optimizer: OptimizePlan called on a plan
  planPc,          \* position in createExecutionPlan / CreateExecutionPlan / OptimizePlan
  query,           \* the selection set of the parsed query
  services,        \* FederationConfig.Services
  enableQueryPlan, \* FederationConfig.EnableQueryPlan as createExecutionPlan read it
  fieldMappings,   \* CreateExecutionPlan: fieldMappings
  pathsTodo,       \* buildDependencyGraph: keys of fieldMappings not yet ranged over
                   \* (those whose iteration can append a dependency)
  plan,            \* the base plan (input of ValidatePlan and OptimizePlan)
  optimizedPlan,   \* OptimizePlan: optimizedPlan
  optErr,          \* the error OptimizePlan returned
  returnedPlan,    \* the plan createExecutionPlan returned
  planErr,         \* the error createExecutionPlan returned
  warned           \* "Plan optimization failed, using original plan" was logged

planVars == <<planMode, planPc, query, services, enableQueryPlan, fieldMappings, pathsTodo,
              plan, optimizedPlan, optErr, returnedPlan, planErr, warned>>

VARIABLES
  resOp,              \* the resolver method that was called
  resPc,              \* "start", "batch" (in the loop over typeGroups) or "returned"
  resService,         \* serviceName
  resEntity,          \* the federated entity the representations are keyed by
  resRepresentations, \* the representation(s) handed to the method
  groupsTodo,         \* ResolveBatchEntities: keys of typeGroups not yet ranged over
  entityCalls,        \* the calls handed to serviceCaller.Call, in order
  resResult,          \* the value the method returned
  resErr              \* the error the method returned

resVars == <<resOp, resPc, resService, resEntity, resRepresentations, groupsTodo,
             entityCalls, resResult, resErr>>

VARIABLES
  parseMode,        \* "analyze": the analysis alone; "request": ExecuteQuery
  parsePc,          \* where the analysis or the request stands
  document,         \* the ast.Document under analysis
  calcStack,        \* the activations of the depth or complexity recursion
  parsedDepth,      \* ParsedQuery.Depth
  parsedComplexity, \* ParsedQuery.Complexity
  depthWarned,      \* "Query depth calculation exceeded maximum allowed depth" was logged
  maxQueryDepth,    \* FederationConfig.MaxQueryDepth
  requestErr,       \* the error ExecuteQuery returned
  planMade,         \* createExecutionPlan returned a plan
  subQueriesSent    \* executePlan dispatched the sub-queries

parseVars == <<parseMode, parsePc, document, calcStack, parsedDepth, parsedComplexity,
               depthWarned, maxQueryDepth, requestErr, planMade, subQueriesSent>>

VARIABLES
  healthNow,    \* the clock the health cache is read against
  healthCache,  \* c.healthCache: one entry per service name, or none
  healthCalls   \* per goroutine, its call of IsHealthy

healthVars == <<healthNow, healthCache, healthCalls>>

VARIABLES
  dirOp,                \* the engine operation called
  dirPc,                \* its position
  dirInput,             \* the directive set, or the entities, it was given
  dirErr,               \* the error it returned
  federatedSchema,      \* the schema ProcessFederationDirectives built
  directivesValidated   \* whether ValidateDirectives has been called

dirVars == <<dirOp, dirPc, dirInput, dirErr, federatedSchema, directivesValidated>>

VARIABLES
  mergePc,         \* the position of a call of MergeResponses
  mergeInput,      \* the responses it was given
  mergePlan,       \* the plan it was given, or none
  conflictPolicy,  \* m.config.ConflictPolicy
  mergeResult,     \* what it returned
  mergeHeap,       \* the maps of the responses and of the results
  mergeRefs,       \* the responses as they hold those maps
  mergeRuns        \* what each call returned, read off the heap

mergeVars ==
  <<mergePc, mergeInput, mergePlan, conflictPolicy, mergeResult, mergeHeap, mergeRefs,
    mergeRuns>>

VARIABLES
  \* ---- the engine's counters under calls of ExecuteQuery and ExecuteFederationQuery
  queryCount,      \* Engine.queryCount
  errorCount,      \* Engine.errorCount
  enginePc,        \* per calling goroutine: idle, the stage it is in, returned
  engineOp,        \* per calling goroutine: the method it called
  failsAt          \* per calling goroutine: the stage that fails for its request, or none

countVars == <<queryCount, errorCount, enginePc, engineOp, failsAt>>

VARIABLES
  \* ---- one call of WASMCaller.CallBatch
  batchPc,         \* called, collecting, returned
  cancelled,       \* ctx.Done() is closed
  workerPc,        \* per call goroutine: call, send, done
  workerResult,    \* per call goroutine: what c.Call returned
  resultChan,      \* buffered channel of callResult
  resultClosed,    \* resultChan has been closed
  batchResponses,  \* the result slice
  callErrors,      \* the indexes of the calls counted as failed
  batchErr         \* the error CallBatch returned

batchVars == <<batchPc, cancelled, workerPc, workerResult, resultChan, resultClosed,
               batchResponses, callErrors, batchErr>>

vars ==
  <<execVars, depVars, callVars, planVars, resVars, parseVars, healthVars, dirVars, mergeVars,
    countVars, batchVars>>

N == Len(subQueries)
TaskIds == 1..N

\* ------------------------------------------------- Engine.executeSubQueries
\* NewEngine builds the merger with a nil config: DefaultMergerConfig().
EnginePolicy == "first"

FieldOf(svc) ==
  CASE svc = "users-service" -> "users"
    [] svc = "products-service" -> "products"
    [] OTHER -> "reviews"

\* What e.caller.Call can hand back for one sub-query: a response with data,
\* a response with GraphQL errors and no data, or a transport error.
CallOutcomes == {"data", "errors", "timeout"}

TimeoutError == "HTTP call failed: HTTP call timeout"

\* The *ServiceResponse a goroutine ends up with after e.caller.Call.
CallResponse(svc, outcome, latency) ==
  CASE outcome = "data" ->
         [Service |-> svc, Data |-> Obj([k \in {FieldOf(svc)} |-> Str(svc)]),
          Errors |-> <<>>, Error |-> NoErr, Latency |-> latency, HasHeaders |-> TRUE,
          Metadata |-> Obj([k \in {"status_code"} |-> Str("200")])]
    [] outcome = "errors" ->
         [Service |-> svc, Data |-> Null,
          Errors |-> <<GqlError("boom", "X", "")>>, Error |-> NoErr, Latency |-> latency,
          HasHeaders |-> TRUE, Metadata |-> Obj([k \in {"status_code"} |-> Str("200")])]
    [] OTHER ->
         [Service |-> svc, Data |-> Null, Errors |-> <<>>, Error |-> TimeoutError,
          Latency |-> latency, HasHeaders |-> FALSE,
          Metadata |-> Obj([k \in {"error_type"} |-> Str("service_call_error")])]

\* Faulty variant: the synthesized response carries no error.
UnhealthyResponse_NoError(svc, latency) ==
  [Service |-> svc, Data |-> Null, Errors |-> <<>>, Error |-> NoErr,
   Latency |-> latency, HasHeaders |-> FALSE, Metadata |-> Null]

UnhealthyResponse(svc, latency) ==
  [Service |-> svc, Data |-> Null, Errors |-> <<>>,
   Error |-> "[SERVICE_CALL_ERROR] service is unhealthy: " \o svc,
   Latency |-> latency, HasHeaders |-> FALSE, Metadata |-> Null]

\* Faulty variant: the response goes to the first free slot, in arrival order.
StoreResult_Arrival(slice, index, response) ==
  LET free == {k \in DOMAIN slice : slice[k] = NilResponse}
      slot == IF free = {} THEN index ELSE CHOOSE k \in free : \A j \in free : k <= j
  IN [slice EXCEPT ![slot] = response]

\* responses[result.index] = result.response
StoreResult(slice, index, response) == [slice EXCEPT ![index] = response]

\* responseCh <- struct{index, response}
SendResponse(ch, index, response) == Append(ch, [index |-> index, response |-> response])

\* Faulty variant: the goroutine writes the shared slice and counter itself.
PublishResponse_Direct(index, response) ==
  /\ responses' = [responses EXCEPT ![index] = response]
  /\ completed' = completed + 1
  /\ responseCh' = responseCh

\* A goroutine hands over its outcome: it sends on responseCh and touches
\* neither the result slice nor the counter.
PublishResponse(index, response) ==
  /\ responseCh' = SendResponse(responseCh, index, response)
  /\ UNCHANGED <<responses, completed>>

ResponseChClosed == closerPc \in {"closedResponse", "closed"}
ErrChClosed == closerPc = "closed"
DeadlineReached == now >= QueryTimeout

ExecInit ==
  /\ subQueries \in Plans
  /\ mergeStrategy \in MergeStrategies
  /\ pc = "planned"
  /\ now = 0
  /\ taskPc = [i \in 1..Len(subQueries) |-> "idle"]
  /\ startTime = [i \in 1..Len(subQueries) |-> 0]
  /\ taskResponse = [i \in 1..Len(subQueries) |-> NilResponse]
  /\ responseCh = <<>>
  /\ errCh = <<>>
  /\ closerPc = "wait"
  /\ responses = [i \in 1..Len(subQueries) |-> NilResponse]
  /\ completed = 0
  /\ coordErr = NoErr
  /\ finalResponse = NilResponse
  /\ reqErr = NoErr
  /\ isHealthy = [i \in 1..Len(subQueries) |-> "unchecked"]
  /\ called = {}

\* Faulty variant: the coordinator is collecting at once, with every
\* goroutine already started.
Dispatch_Skipping ==
  /\ pc = "planned"
  /\ pc' = "collecting"
  /\ taskPc' = [i \in TaskIds |-> "lookup"]
  /\ UNCHANGED <<subQueries, mergeStrategy, now, startTime, taskResponse, responseCh, errCh,
                 closerPc, responses, completed, coordErr, finalResponse, reqErr>>
  /\ UNCHANGED <<depVars, callVars, planVars, resVars, parseVars, healthVars, dirVars, mergeVars,
                 countVars, batchVars>>
  /\ UNCHANGED <<isHealthy, called>>

\* The result slice, the channels and the context are made; the coordinator
\* starts handing the sub-queries to goroutines.
Dispatch ==
  /\ pc = "planned"
  /\ pc' = "dispatching"
  /\ UNCHANGED <<subQueries, mergeStrategy, now, taskPc, startTime, taskResponse, responseCh,
                 errCh, closerPc, responses, completed, coordErr, finalResponse, reqErr>>
  /\ UNCHANGED <<depVars, callVars, planVars, resVars, parseVars, healthVars, dirVars, mergeVars,
                 countVars, batchVars>>
  /\ UNCHANGED <<isHealthy, called>>

\* for i, subQuery := range subQueries { wg.Add(1); go func(...) }: the next
\* goroutine, in plan order, is started.
Launch ==
  /\ pc = "dispatching"
  /\ \E i \in TaskIds :
       /\ taskPc[i] = "idle"
       /\ \A j \in TaskIds : j < i => taskPc[j] # "idle"
       /\ taskPc' = [taskPc EXCEPT ![i] = "lookup"]
  /\ UNCHANGED <<subQueries, mergeStrategy, pc, now, startTime, taskResponse, responseCh,
                 errCh, closerPc, responses, completed, coordErr, finalResponse, reqErr>>
  /\ UNCHANGED <<depVars, callVars, planVars, resVars, parseVars, healthVars, dirVars, mergeVars,
                 countVars, batchVars>>
  /\ UNCHANGED <<isHealthy, called>>

\* Every goroutine is started: the wg.Wait goroutine is started and the
\* coordinator enters its collection loop.
StartCollecting ==
  /\ pc = "dispatching"
  /\ \A i \in TaskIds : taskPc[i] # "idle"
  /\ pc' = "collecting"
  /\ UNCHANGED <<subQueries, mergeStrategy, now, taskPc, startTime, taskResponse, responseCh,
                 errCh, closerPc, responses, completed, coordErr, finalResponse, reqErr>>
  /\ UNCHANGED <<depVars, callVars, planVars, resVars, parseVars, healthVars, dirVars, mergeVars,
                 countVars, batchVars>>
  /\ UNCHANGED <<isHealthy, called>>

Tick ==
  /\ pc # "planned"
  /\ now < QueryTimeout
  /\ now' = now + 1
  /\ UNCHANGED <<subQueries, mergeStrategy, pc, taskPc, startTime, taskResponse, responseCh,
                 errCh, closerPc, responses, completed, coordErr, finalResponse, reqErr>>
  /\ UNCHANGED <<depVars, callVars, planVars, resVars, parseVars, healthVars, dirVars, mergeVars,
                 countVars, batchVars>>
  /\ UNCHANGED <<isHealthy, called>>

\* startTime := time.Now(); the lookup of the ServiceConfig by name.
TaskLookup(i) ==
  /\ taskPc[i] = "lookup"
  /\ startTime' = [startTime EXCEPT ![i] = now]
  /\ IF subQueries[i] \in ConfiguredServices
     THEN /\ taskPc' = [taskPc EXCEPT ![i] = "health"]
          /\ errCh' = errCh
     ELSE /\ taskPc' = [taskPc EXCEPT ![i] = "done"]
          /\ errCh' = Append(errCh, "service not found: " \o subQueries[i])
  /\ UNCHANGED <<subQueries, mergeStrategy, pc, now, taskResponse, responseCh, closerPc,
                 responses, completed, coordErr, finalResponse, reqErr>>
  /\ UNCHANGED <<depVars, callVars, planVars, resVars, parseVars, healthVars, dirVars, mergeVars,
                 countVars, batchVars>>
  /\ UNCHANGED <<isHealthy, called>>

\* e.caller.IsHealthy: an unhealthy service is answered without a call.
TaskHealth(i) ==
  /\ taskPc[i] = "health"
  /\ \E healthy \in BOOLEAN :
       /\ isHealthy' = [isHealthy EXCEPT ![i] = IF healthy THEN "healthy" ELSE "unhealthy"]
       /\ IF healthy
          THEN /\ taskPc' = [taskPc EXCEPT ![i] = "call"]
               /\ UNCHANGED <<taskResponse, responseCh, responses, completed>>
          ELSE LET r == UnhealthyResponse(subQueries[i], now - startTime[i]) IN
               /\ taskPc' = [taskPc EXCEPT ![i] = "done"]
               /\ taskResponse' = [taskResponse EXCEPT ![i] = r]
               /\ PublishResponse(i, r)
  /\ UNCHANGED <<subQueries, mergeStrategy, pc, now, startTime, errCh, closerPc, coordErr,
                 finalResponse, reqErr>>
  /\ UNCHANGED <<depVars, callVars, planVars, resVars, parseVars, healthVars, dirVars, mergeVars,
                 countVars, batchVars>>
  /\ called' = called

\* e.caller.Call returns; the response (or the error response built from the
\* call's error) is sent on responseCh.
TaskCall(i) ==
  /\ taskPc[i] = "call"
  /\ \E outcome \in CallOutcomes :
       LET r == CallResponse(subQueries[i], outcome, now - startTime[i]) IN
       /\ taskResponse' = [taskResponse EXCEPT ![i] = r]
       /\ PublishResponse(i, r)
  /\ taskPc' = [taskPc EXCEPT ![i] = "done"]
  /\ UNCHANGED <<subQueries, mergeStrategy, pc, now, startTime, errCh, closerPc, coordErr,
                 finalResponse, reqErr>>
  /\ UNCHANGED <<depVars, callVars, planVars, resVars, parseVars, healthVars, dirVars, mergeVars,
                 countVars, batchVars>>
  /\ called' = called \cup {i} /\ isHealthy' = isHealthy

\* Faulty variant: the channels are closed without waiting for the goroutines.
CloserStep_NoWait ==
  /\ pc \notin {"planned", "dispatching"}
  /\ \/ /\ closerPc = "wait"
        /\ closerPc' = "closedResponse"
     \/ /\ closerPc = "closedResponse"
        /\ closerPc' = "closed"
  /\ UNCHANGED <<subQueries, mergeStrategy, pc, now, taskPc, startTime, taskResponse,
                 responseCh, errCh, responses, completed, coordErr, finalResponse, reqErr>>
  /\ UNCHANGED <<depVars, callVars, planVars, resVars, parseVars, healthVars, dirVars, mergeVars,
                 countVars, batchVars>>
  /\ UNCHANGED <<isHealthy, called>>

\* go func() { wg.Wait(); close(responseCh); close(errCh) }()
CloserStep ==
  /\ pc \notin {"planned", "dispatching"}
  /\ \/ /\ closerPc = "wait"
        /\ \A i \in TaskIds : taskPc[i] = "done"
        /\ closerPc' = "closedResponse"
     \/ /\ closerPc = "closedResponse"
        /\ closerPc' = "closed"
  /\ UNCHANGED <<subQueries, mergeStrategy, pc, now, taskPc, startTime, taskResponse,
                 responseCh, errCh, responses, completed, coordErr, finalResponse, reqErr>>
  /\ UNCHANGED <<depVars, callVars, planVars, resVars, parseVars, healthVars, dirVars, mergeVars,
                 countVars, batchVars>>
  /\ UNCHANGED <<isHealthy, called>>

\* case result := <-responseCh, a queued result.
CollectResponse ==
  /\ pc = "collecting"
  /\ completed < N
  /\ responseCh # <<>>
  /\ LET result == Head(responseCh) IN
       /\ responses' = StoreResult(responses, result.index, result.response)
       /\ completed' = completed + 1
  /\ responseCh' = Tail(responseCh)
  /\ UNCHANGED <<subQueries, mergeStrategy, pc, now, taskPc, startTime, taskResponse, errCh,
                 closerPc, coordErr, finalResponse, reqErr>>
  /\ UNCHANGED <<depVars, callVars, planVars, resVars, parseVars, healthVars, dirVars, mergeVars,
                 countVars, batchVars>>
  /\ UNCHANGED <<isHealthy, called>>

\* case result := <-responseCh on the closed, drained channel: the zero value,
\* whose response is nil, is dropped and the loop goes round again.
CollectResponseClosed ==
  /\ pc = "collecting"
  /\ completed < N
  /\ responseCh = <<>>
  /\ ResponseChClosed
  /\ UNCHANGED execVars
  /\ UNCHANGED <<depVars, callVars, planVars, resVars, parseVars, healthVars, dirVars, mergeVars,
                 countVars, batchVars>>

\* case err := <-errCh, a queued error: it is logged.
CollectError ==
  /\ pc = "collecting"
  /\ completed < N
  /\ errCh # <<>>
  /\ errCh' = Tail(errCh)
  /\ UNCHANGED <<subQueries, mergeStrategy, pc, now, taskPc, startTime, taskResponse,
                 responseCh, closerPc, responses, completed, coordErr, finalResponse, reqErr>>
  /\ UNCHANGED <<depVars, callVars, planVars, resVars, parseVars, healthVars, dirVars, mergeVars,
                 countVars, batchVars>>
  /\ UNCHANGED <<isHealthy, called>>

\* case err := <-errCh on the closed, drained channel: a nil error.
CollectErrorClosed ==
  /\ pc = "collecting"
  /\ completed < N
  /\ errCh = <<>>
  /\ ErrChClosed
  /\ UNCHANGED execVars
  /\ UNCHANGED <<depVars, callVars, planVars, resVars, parseVars, healthVars, dirVars, mergeVars,
                 countVars, batchVars>>

\* case <-queryCtx.Done(): return responses, queryCtx.Err()
CollectDeadline ==
  /\ pc = "collecting"
  /\ completed < N
  /\ DeadlineReached
  /\ pc' = "returned"
  /\ coordErr' = DeadlineExceeded
  /\ UNCHANGED <<subQueries, mergeStrategy, now, taskPc, startTime, taskResponse, responseCh,
                 errCh, closerPc, responses, completed, finalResponse, reqErr>>
  /\ UNCHANGED <<depVars, callVars, planVars, resVars, parseVars, healthVars, dirVars, mergeVars,
                 countVars, batchVars>>
  /\ UNCHANGED <<isHealthy, called>>

\* The loop condition fails: return responses, nil
CollectFinish ==
  /\ pc = "collecting"
  /\ completed >= N
  /\ pc' = "returned"
  /\ coordErr' = NoErr
  /\ UNCHANGED <<subQueries, mergeStrategy, now, taskPc, startTime, taskResponse, responseCh,
                 errCh, closerPc, responses, completed, finalResponse, reqErr>>
  /\ UNCHANGED <<depVars, callVars, planVars, resVars, parseVars, healthVars, dirVars, mergeVars,
                 countVars, batchVars>>
  /\ UNCHANGED <<isHealthy, called>>

\* executePlan after executeSubQueries: an error is passed up and the
\* responses are dropped, otherwise the responses go to MergeResponses.
ExecutePlanMerge ==
  /\ pc = "returned"
  /\ IF coordErr # NoErr
     THEN /\ pc' = "failed"
          /\ reqErr' = "execution failed: " \o coordErr
          /\ finalResponse' = NilResponse
     ELSE LET m == MergeResponses(responses, mergeStrategy, EnginePolicy) IN
          /\ pc' = IF m.err = NoErr THEN "done" ELSE "failed"
          /\ reqErr' = IF m.err = NoErr THEN NoErr
                       ELSE "execution failed: response merging failed: " \o m.err
          /\ finalResponse' = m.response
  /\ UNCHANGED <<subQueries, mergeStrategy, now, taskPc, startTime, taskResponse, responseCh,
                 errCh, closerPc, responses, completed, coordErr>>
  /\ UNCHANGED <<depVars, callVars, planVars, resVars, parseVars, healthVars, dirVars, mergeVars,
                 countVars, batchVars>>
  /\ UNCHANGED <<isHealthy, called>>

ExecNext ==
  \/ Dispatch
  \/ Launch
  \/ StartCollecting
  \/ Tick
  \/ \E i \in TaskIds : TaskLookup(i)
  \/ \E i \in TaskIds : TaskHealth(i)
  \/ \E i \in TaskIds : TaskCall(i)
  \/ CloserStep
  \/ CollectResponse
  \/ CollectResponseClosed
  \/ CollectError
  \/ CollectErrorClosed
  \/ CollectDeadline
  \/ CollectFinish
  \/ ExecutePlanMerge

\* =====================================================================
\* Dependency validation: Planner.ValidatePlan (pkg/planner) and
\* FederatedPlanner.AnalyzeDependencies (pkg/federation)
\* =====================================================================
\* errors.NewPlanningError(message): a *FederationError with code PLANNING_FAILED
NewPlanningError(message) == [Code |-> "PLANNING_FAILED", Message |-> message]
\* fmt.Errorf(prefix + ": %w", err): a *fmt.wrapError that unwraps to err
Wrap(prefix, err) == [Text |-> prefix \o ": [" \o err.Code \o "] " \o err.Message,
                      Unwrap |-> err]
NilError == [IsNil |-> TRUE]
\* err.(*FederationError) with code PLANNING_FAILED
IsPlanningError(err) == "Code" \in DOMAIN err /\ err.Code = "PLANNING_FAILED"
\* errors.As(err, &fedErr) with code PLANNING_FAILED
WrapsPlanningError(err) == "Unwrap" \in DOMAIN err /\ IsPlanningError(err.Unwrap)

\* The largest number of dependency edges in a plan under validation.
MaxEdges == 3
\* The largest number of federated entities handed to AnalyzeDependencies.
MaxEntities == 3

FedServices == {"user-service", "profile-service", "account-service"}
Edges == PlanServices \X PlanServices
DependencyMaps ==
  {[s \in PlanServices |-> {d \in PlanServices : <<s, d>> \in E}] :
     E \in {X \in SUBSET Edges : Cardinality(X) <= MaxEdges}}

\* types.FederatedField and types.FederatedEntity
Field(name, external, requires) == [Name |-> name, External |-> external, Requires |-> requires]
\* A field is owned, external, or owned and requiring the other field.
FieldOptions(name, other) ==
  {<<Field(name, FALSE, <<>>)>>, <<Field(name, TRUE, <<>>)>>,
   <<Field(name, FALSE, <<other>>)>>}
FieldLists == {a \o b : a \in FieldOptions("email", "profile"),
                        b \in FieldOptions("profile", "email")}
Entities == {[TypeName |-> "User", ServiceName |-> s, Fields |-> fs] :
               s \in FedServices, fs \in FieldLists}
\* One entity per service, in any order.
EntityLists ==
  UNION {{es \in [1..n -> Entities] :
            \A i, j \in 1..n : es[i].ServiceName = es[j].ServiceName => i = j} :
         n \in 1..MaxEntities}

\* findFieldProvider: the service of the first entity of the same type that
\* has the field and does not mark it external; "" when there is none.
RECURSIVE findFieldProvider(_, _, _)
findFieldProvider(typeName, fieldName, all) ==
  IF all = <<>> THEN ""
  ELSE IF /\ Head(all).TypeName = typeName
          /\ \E k \in DOMAIN Head(all).Fields :
               Head(all).Fields[k].Name = fieldName /\ ~Head(all).Fields[k].External
       THEN Head(all).ServiceName
       ELSE findFieldProvider(typeName, fieldName, Tail(all))

\* The required field names of an entity, field by field, in order.
RECURSIVE RequiredFields(_)
RequiredFields(fields) ==
  IF fields = <<>> THEN <<>> ELSE Head(fields).Requires \o RequiredFields(Tail(fields))

\* analyzeFieldDependencies: the providers of the required fields, other than
\* the entity's own service, without duplicates, in first-seen order.
RECURSIVE ProvidersOf(_, _, _, _)
ProvidersOf(entity, required, all, seen) ==
  IF required = <<>> THEN <<>>
  ELSE LET provider == findFieldProvider(entity.TypeName, Head(required), all)
       IN IF provider # "" /\ provider # entity.ServiceName /\ provider \notin seen
          THEN <<provider>> \o ProvidersOf(entity, Tail(required), all, seen \cup {provider})
          ELSE ProvidersOf(entity, Tail(required), all, seen)

analyzeFieldDependencies(entity, all) ==
  ProvidersOf(entity, RequiredFields(entity.Fields), all, {})

\* dependencyGraph[dep] = append(dependencyGraph[dep], serviceName), for one entity.
RECURSIVE AddDependents(_, _, _)
AddDependents(g, deps, serviceName) ==
  IF deps = <<>> THEN g
  ELSE LET dep == Head(deps)
           withDep == IF dep \in DOMAIN g
                      THEN [g EXCEPT ![dep] = Append(@, serviceName)]
                      ELSE [x \in DOMAIN g \cup {dep} |->
                              IF x = dep THEN <<serviceName>> ELSE g[x]]
       IN AddDependents(withDep, Tail(deps), serviceName)

\* The loop of AnalyzeDependencies that builds the dependency graph: every
\* entity's service gets an entry, every dependency gets its dependents.
RECURSIVE BuildDependencyGraph(_, _, _)
BuildDependencyGraph(g, rest, all) ==
  IF rest = <<>> THEN g
  ELSE LET entity == Head(rest)
           serviceName == entity.ServiceName
           withService == IF serviceName \in DOMAIN g THEN g
                          ELSE [x \in DOMAIN g \cup {serviceName} |->
                                  IF x = serviceName THEN <<>> ELSE g[x]]
           deps == SelectSeq(analyzeFieldDependencies(entity, all),
                             LAMBDA d : d # serviceName)
       IN BuildDependencyGraph(AddDependents(withService, deps, serviceName), Tail(rest), all)

\* topologicalSort's first two loops: in-degree 0 for every node, then one
\* more for every occurrence of a node in a neighbour list.
InDegrees(g) ==
  [n \in DOMAIN g |->
     Cardinality(UNION {{<<m, k>> : k \in {j \in DOMAIN g[m] : g[m][j] = n}} : m \in DOMAIN g})]

\* Faulty variant: a neighbour is enqueued whatever its in-degree has become.
RECURSIVE Relax_Eager(_, _, _)
Relax_Eager(deg, q, neighbors) ==
  IF neighbors = <<>> THEN [deg |-> deg, q |-> q]
  ELSE LET n == Head(neighbors)
           d == [deg EXCEPT ![n] = @ - 1]
       IN Relax_Eager(d, Append(q, n), Tail(neighbors))

\* for _, neighbor := range graph[current] { inDegree[neighbor]--; enqueue at 0 }
RECURSIVE Relax(_, _, _)
Relax(deg, q, neighbors) ==
  IF neighbors = <<>> THEN [deg |-> deg, q |-> q]
  ELSE LET n == Head(neighbors)
           d == [deg EXCEPT ![n] = @ - 1]
       IN Relax(d, IF d[n] = 0 THEN Append(q, n) ELSE q, Tail(neighbors))

QueueOrders(S) == InjectiveSeqs(S, Cardinality(S))

VisitFrame(service, todo) == [service |-> service, todo |-> todo]
PlanKeys(deps) == {s \in DOMAIN deps : deps[s] # {}}

DepsIdle ==
  /\ depMode = "idle" /\ depPc = "done"
  /\ dependencies = <<>> /\ planNames = {} /\ keysTodo = {}
  /\ visited = {} /\ visiting = {} /\ stack = <<>>
  /\ entities = <<>> /\ graph = <<>> /\ inDegree = <<>>
  /\ queue = <<>> /\ order = <<>> /\ depErr = NilError

DepsInit ==
  /\ depMode \in {"plan", "fed"}
  /\ depPc = IF depMode = "plan" THEN "validate" ELSE "build"
  /\ dependencies \in IF depMode = "plan" THEN DependencyMaps ELSE {<<>>}
  /\ planNames \in IF depMode = "plan" THEN SUBSET PlanServices \ {{}} ELSE {{}}
  /\ entities \in IF depMode = "fed" THEN EntityLists ELSE {<<>>}
  /\ keysTodo = {} /\ visited = {} /\ visiting = {} /\ stack = <<>>
  /\ graph = <<>> /\ inDegree = <<>> /\ queue = <<>> /\ order = <<>>
  /\ depErr = NilError

\* validateDependencies: every dependency must be a service of the plan.
ValidateDependencies ==
  /\ depMode = "plan" /\ depPc = "validate"
  /\ IF \E s \in PlanKeys(dependencies) : \E d \in dependencies[s] : d \notin planNames
     THEN /\ depPc' = "done" /\ keysTodo' = keysTodo
          /\ depErr' = NewPlanningError("service depends on non-existent service")
     ELSE /\ depPc' = "cycles" /\ keysTodo' = PlanKeys(dependencies)
          /\ depErr' = depErr
  /\ UNCHANGED <<depMode, dependencies, planNames, visited, visiting, stack,
                 entities, graph, inDegree, queue, order>>
  /\ UNCHANGED <<execVars, callVars, planVars, resVars, parseVars, healthVars, dirVars, mergeVars,
                 countVars, batchVars>>

\* visit(service): an error when the service is being visited, nothing when
\* it was visited, otherwise a new frame over its dependencies.
Visit(service, callers) ==
  IF service \in visiting
  THEN /\ depPc' = "done"
       /\ depErr' = NewPlanningError("circular dependency detected involving service")
       /\ stack' = <<>> /\ UNCHANGED <<visiting, visited>>
  ELSE IF service \in visited
  THEN /\ stack' = callers /\ UNCHANGED <<depPc, depErr, visiting, visited>>
  ELSE /\ visiting' = visiting \cup {service}
       /\ stack' = Append(callers, VisitFrame(service, dependencies[service]))
       /\ UNCHANGED <<depPc, depErr, visited>>

\* for service := range dependencies { if err := visit(service) ... }
CheckNextService ==
  /\ depMode = "plan" /\ depPc = "cycles" /\ stack = <<>>
  /\ \E service \in keysTodo :
       /\ keysTodo' = keysTodo \ {service}
       /\ Visit(service, stack)
  /\ UNCHANGED <<depMode, dependencies, planNames, entities, graph, inDegree, queue, order>>
  /\ UNCHANGED <<execVars, callVars, planVars, resVars, parseVars, healthVars, dirVars, mergeVars,
                 countVars, batchVars>>

\* for _, dep := range dependencies[service] { if err := visit(dep) ... }
VisitDependency ==
  /\ depMode = "plan" /\ depPc = "cycles" /\ stack # <<>>
  /\ LET top == stack[Len(stack)] IN
       /\ top.todo # {}
       /\ \E dep \in top.todo :
            Visit(dep, [stack EXCEPT ![Len(stack)] = VisitFrame(top.service, top.todo \ {dep})])
  /\ UNCHANGED <<depMode, dependencies, planNames, keysTodo,
                 entities, graph, inDegree, queue, order>>
  /\ UNCHANGED <<execVars, callVars, planVars, resVars, parseVars, healthVars, dirVars, mergeVars,
                 countVars, batchVars>>

\* visiting[service] = false; visited[service] = true; return nil
VisitReturn ==
  /\ depMode = "plan" /\ depPc = "cycles" /\ stack # <<>>
  /\ LET top == stack[Len(stack)] IN
       /\ top.todo = {}
       /\ visiting' = visiting \ {top.service}
       /\ visited' = visited \cup {top.service}
       /\ stack' = SubSeq(stack, 1, Len(stack) - 1)
  /\ UNCHANGED <<depMode, depPc, dependencies, planNames, keysTodo,
                 entities, graph, inDegree, queue, order, depErr>>
  /\ UNCHANGED <<execVars, callVars, planVars, resVars, parseVars, healthVars, dirVars, mergeVars,
                 countVars, batchVars>>

\* checkCircularDependencies returns nil and ValidatePlan with it.
CheckDone ==
  /\ depMode = "plan" /\ depPc = "cycles" /\ stack = <<>> /\ keysTodo = {}
  /\ depPc' = "done"
  /\ UNCHANGED <<depMode, dependencies, planNames, keysTodo, visited, visiting, stack,
                 entities, graph, inDegree, queue, order, depErr>>
  /\ UNCHANGED <<execVars, callVars, planVars, resVars, parseVars, healthVars, dirVars, mergeVars,
                 countVars, batchVars>>

\* AnalyzeDependencies builds the graph; topologicalSort computes the
\* in-degrees and queues the nodes of in-degree 0, in map iteration order.
BuildAndStartSort ==
  /\ depMode = "fed" /\ depPc = "build"
  /\ graph' = BuildDependencyGraph(<<>>, entities, entities)
  /\ inDegree' = InDegrees(graph')
  /\ queue' \in QueueOrders({n \in DOMAIN graph' : inDegree'[n] = 0})
  /\ depPc' = "sort"
  /\ UNCHANGED <<depMode, dependencies, planNames, keysTodo, visited, visiting, stack,
                 entities, order, depErr>>
  /\ UNCHANGED <<execVars, callVars, planVars, resVars, parseVars, healthVars, dirVars, mergeVars,
                 countVars, batchVars>>

\* One iteration of `for len(queue) > 0`.
SortStep ==
  /\ depMode = "fed" /\ depPc = "sort" /\ queue # <<>>
  /\ LET current == Head(queue)
         r == Relax(inDegree, Tail(queue), graph[current])
     IN /\ order' = Append(order, current)
        /\ inDegree' = r.deg
        /\ queue' = r.q
  /\ UNCHANGED <<depMode, depPc, dependencies, planNames, keysTodo, visited, visiting, stack,
                 entities, graph, depErr>>
  /\ UNCHANGED <<execVars, callVars, planVars, resVars, parseVars, healthVars, dirVars, mergeVars,
                 countVars, batchVars>>

\* Faulty variant: the length of the result is not compared with the node count.
SortResult_Unchecked(result, deg) == [order |-> result, err |-> NilError]

\* if len(result) != len(inDegree) { return nil, circular dependency }
SortResult(result, deg) ==
  IF Len(result) # Cardinality(DOMAIN deg)
  THEN [order |-> <<>>, err |-> NewPlanningError("circular dependency detected")]
  ELSE [order |-> result, err |-> NilError]

\* topologicalSort returns; AnalyzeDependencies wraps its error and returns
\* no ordering with it.
SortDone ==
  /\ depMode = "fed" /\ depPc = "sort" /\ queue = <<>>
  /\ LET sorted == SortResult(order, inDegree) IN
       IF sorted.err # NilError
       THEN order' = <<>> /\ depErr' = Wrap("failed to sort dependencies", sorted.err)
       ELSE order' = sorted.order /\ depErr' = NilError
  /\ depPc' = "done"
  /\ UNCHANGED <<depMode, dependencies, planNames, keysTodo, visited, visiting, stack,
                 entities, graph, inDegree, queue>>
  /\ UNCHANGED <<execVars, callVars, planVars, resVars, parseVars, healthVars, dirVars, mergeVars,
                 countVars, batchVars>>

DepsNext ==
  \/ ValidateDependencies
  \/ CheckNextService
  \/ VisitDependency
  \/ VisitReturn
  \/ CheckDone
  \/ BuildAndStartSort
  \/ SortStep
  \/ SortDone

\* =====================================================================
\* One service call over the host's asynchronous HTTP call:
\* WASMCaller.makeWASMHTTPCall and WASMHTTPCallHandler (pkg/caller)
\* =====================================================================
\* The number of calls in flight together.
MaxCalls == 2
\* The most callbacks the host delivers for one call.
MaxDeliveries == 2

CallIds == 1..MaxCalls
CallbackKinds == {"response", "error"}

CallIdle ==
  /\ callPc = <<>> /\ processed = <<>> /\ responseChan = <<>> /\ errorChan = <<>>
  /\ responseClosed = <<>> /\ errorClosed = <<>> /\ outcomes = <<>>
  /\ deliveries = <<>> /\ crashed = FALSE

\* NewWASMHTTPCallHandler: two channels of capacity 1, processed false.
CallInit ==
  /\ callPc = [c \in CallIds |-> "idle"]
  /\ processed = [c \in CallIds |-> FALSE]
  /\ responseChan = [c \in CallIds |-> <<>>]
  /\ errorChan = [c \in CallIds |-> <<>>]
  /\ responseClosed = [c \in CallIds |-> FALSE]
  /\ errorClosed = [c \in CallIds |-> FALSE]
  /\ outcomes = [c \in CallIds |-> <<>>]
  /\ deliveries = [c \in CallIds |-> 0]
  /\ crashed = FALSE

\* proxywasm.DispatchHttpCall returns: with an error the call returns a
\* ServiceError at once, otherwise the callback is registered with the host.
DispatchHttpCall(c) ==
  /\ ~crashed /\ callPc[c] = "idle"
  /\ \E ok \in BOOLEAN :
       IF ok
       THEN callPc' = [callPc EXCEPT ![c] = "dispatched"] /\ outcomes' = outcomes
       ELSE /\ callPc' = [callPc EXCEPT ![c] = "returned"]
            /\ outcomes' = [outcomes EXCEPT ![c] = Append(@, "dispatchError")]
  /\ UNCHANGED <<processed, responseChan, errorChan, responseClosed, errorClosed,
                 deliveries, crashed>>
  /\ UNCHANGED <<execVars, depVars, planVars, resVars, parseVars, healthVars, dirVars, mergeVars,
                 countVars, batchVars>>

\* handler = NewWASMHTTPCallHandler(calloutID), then handler.Wait begins.
CreateHandler(c) ==
  /\ ~crashed /\ callPc[c] = "dispatched"
  /\ callPc' = [callPc EXCEPT ![c] = "waiting"]
  /\ UNCHANGED <<processed, responseChan, errorChan, responseClosed, errorClosed,
                 outcomes, deliveries, crashed>>
  /\ UNCHANGED <<execVars, depVars, planVars, resVars, parseVars, healthVars, dirVars, mergeVars,
                 countVars, batchVars>>

\* select { case ch <- v: default: }: a send on a closed channel panics, a
\* send on a full channel takes the default branch.
TrySend(ch, closed, v) ==
  IF closed THEN [ch |-> ch, panic |-> TRUE]
  ELSE IF Len(ch) < 1 THEN [ch |-> Append(ch, v), panic |-> FALSE]
  ELSE [ch |-> ch, panic |-> FALSE]

\* The host runs the callback passed to DispatchHttpCall. The closure reads
\* `handler` without synchronisation: before the assignment it is nil, after
\* it the read may still see nil. With a handler, OnHttpCallResponse runs
\* under the mutex: once processed it only logs, otherwise it sends a
\* response or an error.
HttpCallback(c) ==
  /\ ~crashed /\ callPc[c] # "idle"
  /\ ~(callPc[c] = "returned" /\ outcomes[c] = <<"dispatchError">>)
  /\ deliveries[c] < MaxDeliveries
  /\ deliveries' = [deliveries EXCEPT ![c] = @ + 1]
  /\ \E seesHandler \in IF callPc[c] = "dispatched" THEN {FALSE} ELSE BOOLEAN :
       IF ~seesHandler \/ processed[c]
       THEN UNCHANGED <<processed, responseChan, errorChan, crashed>>
       ELSE /\ processed' = [processed EXCEPT ![c] = TRUE]
            /\ \E kind \in CallbackKinds :
                 IF kind = "response"
                 THEN LET sent == TrySend(responseChan[c], responseClosed[c], "response") IN
                        /\ responseChan' = [responseChan EXCEPT ![c] = sent.ch]
                        /\ crashed' = sent.panic
                        /\ errorChan' = errorChan
                 ELSE LET sent == TrySend(errorChan[c], errorClosed[c], "error") IN
                        /\ errorChan' = [errorChan EXCEPT ![c] = sent.ch]
                        /\ crashed' = sent.panic
                        /\ responseChan' = responseChan
  /\ UNCHANGED <<callPc, responseClosed, errorClosed, outcomes>>
  /\ UNCHANGED <<execVars, depVars, planVars, resVars, parseVars, healthVars, dirVars, mergeVars,
                 countVars, batchVars>>

\* Wait: case response := <-h.responseChan
WaitResponse(c) ==
  /\ ~crashed /\ callPc[c] = "waiting" /\ responseChan[c] # <<>>
  /\ outcomes' = [outcomes EXCEPT ![c] = Append(@, Head(responseChan[c]))]
  /\ responseChan' = [responseChan EXCEPT ![c] = Tail(@)]
  /\ callPc' = [callPc EXCEPT ![c] = "resolved"]
  /\ UNCHANGED <<processed, errorChan, responseClosed, errorClosed, deliveries, crashed>>
  /\ UNCHANGED <<execVars, depVars, planVars, resVars, parseVars, healthVars, dirVars, mergeVars,
                 countVars, batchVars>>

\* Wait: case err := <-h.errorChan
WaitError(c) ==
  /\ ~crashed /\ callPc[c] = "waiting" /\ errorChan[c] # <<>>
  /\ outcomes' = [outcomes EXCEPT ![c] = Append(@, Head(errorChan[c]))]
  /\ errorChan' = [errorChan EXCEPT ![c] = Tail(@)]
  /\ callPc' = [callPc EXCEPT ![c] = "resolved"]
  /\ UNCHANGED <<processed, responseChan, responseClosed, errorClosed, deliveries, crashed>>
  /\ UNCHANGED <<execVars, depVars, planVars, resVars, parseVars, healthVars, dirVars, mergeVars,
                 countVars, batchVars>>

\* Wait: case <-time.After(timeout)
WaitTimeout(c) ==
  /\ ~crashed /\ callPc[c] = "waiting"
  /\ outcomes' = [outcomes EXCEPT ![c] = Append(@, "timeout")]
  /\ callPc' = [callPc EXCEPT ![c] = "resolved"]
  /\ UNCHANGED <<processed, responseChan, errorChan, responseClosed, errorClosed,
                 deliveries, crashed>>
  /\ UNCHANGED <<execVars, depVars, planVars, resVars, parseVars, healthVars, dirVars, mergeVars,
                 countVars, batchVars>>

\* Close, deferred to the return of makeWASMHTTPCall: each channel is
\* drained of one value if it holds one, and closed otherwise.
Close(c) ==
  /\ ~crashed /\ callPc[c] = "resolved"
  /\ responseChan' = [responseChan EXCEPT ![c] = <<>>]
  /\ responseClosed' = [responseClosed EXCEPT ![c] = (responseChan[c] = <<>>)]
  /\ errorChan' = [errorChan EXCEPT ![c] = <<>>]
  /\ errorClosed' = [errorClosed EXCEPT ![c] = (errorChan[c] = <<>>)]
  /\ callPc' = [callPc EXCEPT ![c] = "returned"]
  /\ UNCHANGED <<processed, outcomes, deliveries, crashed>>
  /\ UNCHANGED <<execVars, depVars, planVars, resVars, parseVars, healthVars, dirVars, mergeVars,
                 countVars, batchVars>>

CallNext ==
  \E c \in CallIds :
    \/ DispatchHttpCall(c)
    \/ CreateHandler(c)
    \/ HttpCallback(c)
    \/ WaitResponse(c)
    \/ WaitError(c)
    \/ WaitTimeout(c)
    \/ Close(c)

\* =====================================================================
\* Sub-query planning: Planner.CreateExecutionPlan, ValidatePlan and
\* OptimizePlan (pkg/planner), Engine.createExecutionPlan (pkg/federation)
\* =====================================================================
\* Root fields of a query and configured services are bounded.
MaxRootFields == 2
MaxServices == 2

\* ------------------------------------------------------------ Go strings
\* strings.Contains
Contains(s, substr) ==
  \E i \in 1..(Len(s) - Len(substr) + 1) : SubSeq(s, i, i + Len(substr) - 1) = substr

LowerCase ==
  [A |-> "a", B |-> "b", C |-> "c", D |-> "d", E |-> "e", F |-> "f", G |-> "g",
   H |-> "h", I |-> "i", J |-> "j", K |-> "k", L |-> "l", M |-> "m", N |-> "n",
   O |-> "o", P |-> "p", Q |-> "q", R |-> "r", S |-> "s", T |-> "t", U |-> "u",
   V |-> "v", W |-> "w", X |-> "x", Y |-> "y", Z |-> "z"]

\* strings.ToLower
RECURSIVE ToLower(_)
ToLower(s) ==
  IF s = "" THEN ""
  ELSE LET c == SubSeq(s, 1, 1)
       IN (IF c \in DOMAIN LowerCase THEN LowerCase[c] ELSE c) \o ToLower(SubSeq(s, 2, Len(s)))

\* strings.Join(path, sep)
RECURSIVE Join(_, _)
Join(parts, sep) ==
  IF parts = <<>> THEN ""
  ELSE IF Len(parts) = 1 THEN parts[1]
  ELSE parts[1] \o sep \o Join(Tail(parts), sep)

\* strings.Split(s, sep), for a separator of one character
RECURSIVE Split(_, _)
Split(s, sep) ==
  LET at == {i \in 1..Len(s) : SubSeq(s, i, i) = sep} IN
    IF at = {} THEN <<s>>
    ELSE LET i == CHOOSE i \in at : \A j \in at : i <= j
         IN <<SubSeq(s, 1, i - 1)>> \o Split(SubSeq(s, i + 1, Len(s)), sep)

\* strings.Count(s, substr), for a substring of one character
Count(s, substr) == Cardinality({i \in 1..Len(s) : SubSeq(s, i, i) = substr})

\* Go maps: a missing key reads as the zero value (a nil slice).
Get(m, k) == IF k \in DOMAIN m THEN m[k] ELSE <<>>
Put(m, k, v) == [x \in DOMAIN m \cup {k} |-> IF x = k THEN v ELSE m[x]]
Range(q) == {q[i] : i \in DOMAIN q}

\* --------------------------------------------------------------- inputs
\* types.ServiceConfig; no Timeout is configured.
SchemaOf(name) ==
  CASE name = "users-service" ->
         "type Query { users: [User] } type User { id: ID name: String email: String }"
    [] name = "products-service" ->
         "type Query { products: [Product] } type Product { id: ID name: String price: Float }"
    [] OTHER ->
         "type Query { reviews: [Review] } type Review { id: ID name: String rating: Int }"
ServiceConfig(name, withSchema) ==
  [Name |-> name,
   Endpoint |-> "http://" \o name \o ":8080/graphql",
   Schema |-> IF withSchema THEN SchemaOf(name) ELSE "",
   Timeout |-> 0]
\* The services are all registered with their schema or all without it.
ServiceLists ==
  UNION {{[i \in 1..n |-> ServiceConfig(names[i], withSchema)] :
            names \in InjectiveSeqs(PlanServices, n), withSchema \in BOOLEAN} :
         n \in 0..MaxServices}

\* The selection set of the operation: root fields with scalar sub-fields.
RootFieldNames == <<"users", "products", "reviews">>
OwnField(root) ==
  CASE root = "users" -> "email" [] root = "products" -> "price" [] OTHER -> "rating"
Selection(name, selectionSet) == [Name |-> name, SelectionSet |-> selectionSet]
Scalars(names) == [i \in DOMAIN names |-> Selection(names[i], <<>>)]
RootSelections(k) ==
  {Selection(RootFieldNames[k], Scalars(<<"id", "name">>)),
   Selection(RootFieldNames[k], Scalars(<<OwnField(RootFieldNames[k])>>))}
Queries ==
  UNION {{[i \in 1..n |-> sel[i]] :
            sel \in {f \in [1..n -> UNION {RootSelections(k) : k \in DOMAIN RootFieldNames}] :
                       \A i, j \in 1..n : i < j =>
                         \E a, b \in DOMAIN RootFieldNames :
                           a < b /\ f[i] \in RootSelections(a) /\ f[j] \in RootSelections(b)}} :
         n \in 1..MaxRootFields}

\* --------------------------------------------- Planner.CreateExecutionPlan
FieldPath(path) == [Path |-> path, Type |-> "String"]

\* extractFieldsFromSelectionSetWithVisited: a path for every field, the
\* field before its sub-fields, in document order.
RECURSIVE extractFieldsFromSelectionSet(_, _)
extractFieldsFromSelectionSet(selectionSet, currentPath) ==
  IF selectionSet = <<>> THEN <<>>
  ELSE LET field == Head(selectionSet)
           newPath == Append(currentPath, field.Name)
       IN <<FieldPath(newPath)>>
          \o extractFieldsFromSelectionSet(field.SelectionSet, newPath)
          \o extractFieldsFromSelectionSet(Tail(selectionSet), currentPath)

extractFieldPaths(q) == extractFieldsFromSelectionSet(q, <<>>)

FieldTypeMappings ==
  [user |-> {"users", "user", "profile", "account", "authentication"},
   product |-> {"products", "product", "catalog", "inventory", "item"},
   order |-> {"orders", "order", "purchase", "transaction", "payment"},
   review |-> {"reviews", "review", "rating", "comment", "feedback"},
   auth |-> {"login", "logout", "register", "authenticate", "token"}]

UrlPatterns ==
  [user |-> {"/user", "/users", "/auth", "/account"},
   product |-> {"/product", "/products", "/catalog", "/inventory"},
   order |-> {"/order", "/orders", "/purchase", "/payment"},
   review |-> {"/review", "/reviews", "/rating", "/comment"}]

fieldExistsInSchema(fieldName, schema) == Contains(schema, fieldName)

inferFromEndpoint(fieldName, endpoint) ==
  LET lowerEndpoint == ToLower(endpoint)
      lowerField == ToLower(fieldName)
  IN \/ Contains(lowerEndpoint, lowerField)
     \/ \E serviceType \in DOMAIN UrlPatterns :
          /\ Contains(lowerField, serviceType)
          /\ \E pattern \in UrlPatterns[serviceType] : Contains(lowerEndpoint, pattern)

fieldBelongsToService(fieldPath, service) ==
  IF Len(fieldPath.Path) = 0 THEN FALSE
  ELSE LET rootField == fieldPath.Path[1]
           serviceName == ToLower(service.Name)
           fieldName == ToLower(rootField)
       IN IF Contains(fieldName, serviceName) \/ Contains(serviceName, fieldName) THEN TRUE
          ELSE IF \E serviceType \in DOMAIN FieldTypeMappings :
                    /\ Contains(serviceName, serviceType)
                    /\ \E mappedField \in FieldTypeMappings[serviceType] :
                         Contains(fieldName, mappedField)
          THEN TRUE
          ELSE IF service.Schema # "" THEN fieldExistsInSchema(rootField, service.Schema)
          ELSE IF service.Endpoint # "" THEN inferFromEndpoint(fieldName, service.Endpoint)
          ELSE FALSE

\* analyzeFieldMappings: path key -> the services the field belongs to, in
\* configuration order; the first service when there is none.
analyzeFieldMappings(fieldPaths, svcs) ==
  [pathKey \in {Join(fieldPaths[i].Path, ".") : i \in DOMAIN fieldPaths} |->
     LET fieldPath == fieldPaths[CHOOSE i \in DOMAIN fieldPaths :
                                   Join(fieldPaths[i].Path, ".") = pathKey]
         owners == SelectSeq(svcs, LAMBDA service : fieldBelongsToService(fieldPath, service))
     IN IF owners = <<>> /\ Len(svcs) > 0
        THEN <<svcs[1].Name>>
        ELSE [i \in DOMAIN owners |-> owners[i].Name]]

BaseServices == {"users", "user", "accounts", "auth", "products", "product", "catalog"}
isBaseService(service) == \E baseService \in BaseServices : Contains(ToLower(service), baseService)

\* The first base service other than `service` among the services of a path.
FirstBaseService(svcNames, service) ==
  LET at == {i \in DOMAIN svcNames : svcNames[i] # service /\ isBaseService(svcNames[i])}
  IN IF at = {} THEN "" ELSE svcNames[CHOOSE i \in at : \A j \in at : i <= j]

\* inferDependencyFromField ranges over the map in an unspecified order and
\* returns at the first path that yields a service: the set of its results.
inferDependencyFromField(service, fieldName, mappings) ==
  LET found == {FirstBaseService(mappings[path], service) :
                  path \in {p \in DOMAIN mappings : Contains(p, fieldName)}} \ {""}
  IN IF found = {} THEN {""} ELSE found

BusinessDependencies ==
  [order |-> <<"user", "product", "payment">>,
   orders |-> <<"users", "products", "payments">>,
   review |-> <<"user", "product">>,
   reviews |-> <<"users", "products">>,
   cart |-> <<"user", "product">>,
   shopping |-> <<"user", "product">>,
   checkout |-> <<"user", "product", "payment">>,
   payment |-> <<"user", "order">>,
   payments |-> <<"users", "orders">>,
   shipping |-> <<"user", "order">>,
   notification |-> <<"user">>,
   analytics |-> <<"user", "product", "order">>]

\* getBusinessLogicDependencies breaks at the first matching key of a map:
\* the set of its results.
getBusinessLogicDependencies(service) ==
  LET hits == {BusinessDependencies[serviceType] :
                 serviceType \in {t \in DOMAIN BusinessDependencies :
                                    Contains(ToLower(service), t)}}
  IN IF hits = {} THEN {<<>>} ELSE hits

RECURSIVE InferredDependencies(_, _, _)
InferredDependencies(service, pathParts, mappings) ==
  IF pathParts = <<>> THEN {<<>>}
  ELSE {(IF dep # "" /\ dep # service THEN <<dep>> ELSE <<>>) \o rest :
          dep \in inferDependencyFromField(service, Head(pathParts), mappings),
          rest \in InferredDependencies(service, Tail(pathParts), mappings)}

\* analyzeServiceDependencies: the set of its results.
analyzeServiceDependencies(service, fieldPath, mappings) ==
  {inferred \o businessDeps :
     inferred \in InferredDependencies(service, Split(fieldPath, "."), mappings),
     businessDeps \in getBusinessLogicDependencies(service)}

\* The inner loop of buildDependencyGraph over the services of one path:
\* the set of dependency maps it can leave.
RECURSIVE AppendDependencies(_, _, _, _)
AppendDependencies(deps, svcNames, fieldPath, mappings) ==
  IF svcNames = <<>> THEN {deps}
  ELSE UNION {AppendDependencies(
                IF serviceDeps = <<>> THEN deps
                ELSE Put(deps, Head(svcNames), Get(deps, Head(svcNames)) \o serviceDeps),
                Tail(svcNames), fieldPath, mappings) :
              serviceDeps \in analyzeServiceDependencies(Head(svcNames), fieldPath, mappings)}

\* The paths whose iteration of buildDependencyGraph can append something.
ContributingPaths(mappings) ==
  {fieldPath \in DOMAIN mappings :
     \E i \in DOMAIN mappings[fieldPath] :
       analyzeServiceDependencies(mappings[fieldPath][i], fieldPath, mappings) # {<<>>}}

RECURSIVE uniqueAndFilterDependencies(_, _)
uniqueAndFilterDependencies(deps, service) ==
  IF deps = <<>> THEN <<>>
  ELSE LET init == uniqueAndFilterDependencies(SubSeq(deps, 1, Len(deps) - 1), service)
           dep == deps[Len(deps)]
       IN IF dep = service \/ dep \in Range(init) THEN init ELSE Append(init, dep)

DefaultTimeout == 30

\* types.SubQuery; Variables is a map, nil where the planner sets none.
SubQuery(serviceName, queryText, timeout) ==
  [ServiceName |-> serviceName, Query |-> queryText, Variables |-> <<>>,
   Timeout |-> timeout]

\* buildSubQuerySimple: the root fields of the paths are collected in a map
\* and joined in map order, so only the set of the paths counts.
buildSubQuerySimple(fields) ==
  LET rootFields == {Split(field, ".")[1] : field \in fields}
  IN IF rootFields = {} THEN {""}
     ELSE {"query { " \o Join(rootFieldsList, " ") \o " }" :
             rootFieldsList \in QueueOrders(rootFields)}

findServiceByName(name, svcs) ==
  LET at == {i \in DOMAIN svcs : svcs[i].Name = name}
  IN IF at = {} THEN <<>> ELSE <<svcs[CHOOSE i \in at : \A j \in at : i <= j]>>

\* generateSubQueries: one sub-query per service of the mappings, in map order.
generateSubQueries(mappings, svcs) ==
  LET names == UNION {Range(mappings[p]) : p \in DOMAIN mappings}
      known == {n \in names : findServiceByName(n, svcs) # <<>>}
      fieldsOf(n) == {p \in DOMAIN mappings : n \in Range(mappings[p])}
      timeoutOf(n) == LET service == findServiceByName(n, svcs)[1]
                      IN IF service.Timeout <= 0 THEN DefaultTimeout ELSE service.Timeout
  IN UNION {{[i \in DOMAIN ord |-> SubQuery(ord[i], text[ord[i]], timeoutOf(ord[i]))] :
               text \in {t \in [known -> UNION {buildSubQuerySimple(fieldsOf(n)) : n \in known}] :
                           \A n \in known : t[n] \in buildSubQuerySimple(fieldsOf(n))}} :
            ord \in QueueOrders(known)}

determineMergeStrategy(subQs) ==
  IF Len(subQs) <= 1 THEN "shallow"
  ELSE IF \E i \in DOMAIN subQs :
            Contains(subQs[i].Query, "{") /\ Count(subQs[i].Query, "{") > 1
  THEN "deep"
  ELSE "shallow"

NilPlan == [nil |-> TRUE]
ExecutionPlan(subQs, deps, strategy) ==
  [SubQueries |-> subQs, Dependencies |-> deps, MergeStrategy |-> strategy]

\* ---------------------------------------------------- Planner.ValidatePlan
validateSubQuery(subQuery) ==
  IF subQuery.ServiceName = "" THEN NewPlanningError("sub-query has empty service name")
  ELSE IF subQuery.Query = "" THEN NewPlanningError("sub-query has empty query")
  ELSE IF subQuery.Timeout <= 0 THEN NewPlanningError("sub-query has invalid timeout")
  ELSE NilError

validateDependencies(deps, subQs) ==
  LET serviceNames == {subQs[i].ServiceName : i \in DOMAIN subQs}
  IN IF \E service \in DOMAIN deps : \E dep \in Range(deps[service]) : dep \notin serviceNames
     THEN NewPlanningError("service depends on non-existent service")
     ELSE NilError

\* The services the dependency lists lead to from a set of services.
RECURSIVE DependenciesOf(_, _, _)
DependenciesOf(deps, frontier, seen) ==
  IF frontier \subseteq seen THEN seen
  ELSE DependenciesOf(deps, UNION {Range(Get(deps, s)) : s \in frontier}, seen \cup frontier)

\* checkCircularDependencies: visit fails exactly when a service is reached
\* again while it is being visited, that is, when it leads to itself.
checkCircularDependencies(deps) ==
  IF \E service \in DOMAIN deps : service \in DependenciesOf(deps, Range(deps[service]), {})
  THEN NewPlanningError("circular dependency detected involving service")
  ELSE NilError

ValidatePlan(p) ==
  IF p = NilPlan THEN NewPlanningError("plan is nil")
  ELSE IF Len(p.SubQueries) = 0 THEN NewPlanningError("plan has no sub-queries")
  ELSE LET bad == {i \in DOMAIN p.SubQueries : validateSubQuery(p.SubQueries[i]) # NilError}
       IN IF bad # {}
          THEN validateSubQuery(p.SubQueries[CHOOSE i \in bad : \A j \in bad : i <= j])
          ELSE IF validateDependencies(p.Dependencies, p.SubQueries) # NilError
          THEN validateDependencies(p.Dependencies, p.SubQueries)
          ELSE checkCircularDependencies(p.Dependencies)

\* ---------------------------------------------------- Planner.OptimizePlan
\* optimizeBatching groups the sub-queries by service and emits the groups in
\* map order. It runs after mergeQueriesForSameService, so that every group
\* is one sub-query, emitted as it is.
GroupByService(subQs) ==
  LET names == {subQs[i].ServiceName : i \in DOMAIN subQs}
      group(n) == SelectSeq(subQs, LAMBDA q : q.ServiceName = n)
  IN {[i \in DOMAIN ord |-> group(ord[i])[1]] : ord \in QueueOrders(names)}

\* strings.TrimSpace, for texts whose white space is blanks and line feeds
RECURSIVE TrimSpace(_)
TrimSpace(s) ==
  IF s = "" THEN ""
  ELSE IF SubSeq(s, 1, 1) \in {" ", "\n"} THEN TrimSpace(SubSeq(s, 2, Len(s)))
  ELSE IF SubSeq(s, Len(s), Len(s)) \in {" ", "\n"} THEN TrimSpace(SubSeq(s, 1, Len(s) - 1))
  ELSE s

\* strings.HasPrefix
HasPrefix(s, prefix) == Len(s) >= Len(prefix) /\ SubSeq(s, 1, Len(prefix)) = prefix

\* The text before the first occurrence of a character: line[:idx] where
\* strings.Index finds one, the text itself where it finds none.
CutAt(s, ch) ==
  LET at == {i \in 1..Len(s) : SubSeq(s, i, i) = ch}
  IN IF at = {} THEN s ELSE SubSeq(s, 1, (CHOOSE i \in at : \A j \in at : i <= j) - 1)

\* extractQueryContent: the text between the first "{" and the last "}".
extractQueryContent(queryText) ==
  LET opens == {i \in 1..Len(queryText) : SubSeq(queryText, i, i) = "{"}
      closes == {i \in 1..Len(queryText) : SubSeq(queryText, i, i) = "}"}
  IN IF opens = {} \/ closes = {} THEN ""
     ELSE LET start == CHOOSE i \in opens : \A j \in opens : i <= j
              end == CHOOSE i \in closes : \A j \in closes : i >= j
          IN IF start >= end THEN "" ELSE TrimSpace(SubSeq(queryText, start + 1, end - 1))

\* extractFieldName: the line without its arguments and its sub-fields.
extractFieldName(line) == TrimSpace(CutAt(CutAt(line, "("), "{"))

\* parseQueryFields: one field name per line of the content.
parseQueryFields(content) ==
  LET lines == Split(content, "\n")
      names == [i \in DOMAIN lines |->
                  IF TrimSpace(lines[i]) # "" /\ ~HasPrefix(TrimSpace(lines[i]), "#")
                  THEN extractFieldName(TrimSpace(lines[i])) ELSE ""]
  IN SelectSeq(names, LAMBDA name : name # "")

extractQueryType(queryText) ==
  IF HasPrefix(TrimSpace(queryText), "mutation") THEN "mutation"
  ELSE IF HasPrefix(TrimSpace(queryText), "subscription") THEN "subscription"
  ELSE "query"

\* mergeQueryStrings: the field names of all the queries are the keys of a
\* map, written out in map order after the type of the first query.
mergeQueryStrings(queries) ==
  LET fields == UNION {Range(parseQueryFields(extractQueryContent(queries[i].Query))) :
                         i \in DOMAIN queries}
  IN IF fields = {} THEN {queries[1].Query}
     ELSE {extractQueryType(queries[1].Query) \o " { " \o Join(fieldList, " ") \o " }" :
             fieldList \in QueueOrders(fields)}

\* getMaxTimeout: the greatest timeout, and zero where none is positive.
getMaxTimeout(queries) ==
  LET timeouts == {queries[i].Timeout : i \in DOMAIN queries} \cup {0}
  IN CHOOSE t \in timeouts : \A u \in timeouts : u <= t

\* for k, v := range query.Variables { allVariables[k] = v }, query by query
RECURSIVE AllVariables(_)
AllVariables(queries) ==
  IF queries = <<>> THEN <<>>
  ELSE LET before == AllVariables(SubSeq(queries, 1, Len(queries) - 1))
           last == queries[Len(queries)].Variables
       IN [k \in DOMAIN before \cup DOMAIN last |->
             IF k \in DOMAIN last THEN last[k] ELSE before[k]]

\* mergeQueries, for two queries or more: the first query with the variables,
\* the text and the timeout replaced. (The Path of a sub-query is not modelled.)
mergeQueries(queries) ==
  {[queries[1] EXCEPT !.Variables = AllVariables(queries),
                      !.Query = text,
                      !.Timeout = getMaxTimeout(queries)] :
     text \in mergeQueryStrings(queries)}

\* mergeQueriesForSameService: the sub-queries are grouped by service and
\* the groups emitted in map order, a group of several merged into one.
mergeQueriesForSameService(subQs) ==
  LET names == {subQs[i].ServiceName : i \in DOMAIN subQs}
      group(n) == SelectSeq(subQs, LAMBDA q : q.ServiceName = n)
      one(n) == IF Len(group(n)) = 1 THEN {group(n)[1]} ELSE mergeQueries(group(n))
  IN UNION {{optimized \in [DOMAIN ord -> UNION {one(n) : n \in names}] :
               \A i \in DOMAIN ord : optimized[i] \in one(ord[i])} :
            ord \in QueueOrders(names)}

VisitState(done, active, ordered) ==
  [visited |-> done, visiting |-> active, ordered |-> ordered]

FirstSubQueryOf(subQs, serviceName) ==
  LET at == {i \in DOMAIN subQs : subQs[i].ServiceName = serviceName}
  IN IF at = {} THEN <<>> ELSE <<subQs[CHOOSE i \in at : \A j \in at : i <= j]>>

\* optimizeQueryOrder: visit(serviceName) and its loop over the dependencies.
RECURSIVE visit(_, _, _, _)
RECURSIVE VisitAll(_, _, _, _)
visit(st, serviceName, subQs, deps) ==
  IF serviceName \in st.visiting THEN [ok |-> FALSE, st |-> st]
  ELSE IF serviceName \in st.visited THEN [ok |-> TRUE, st |-> st]
  ELSE LET r == VisitAll(VisitState(st.visited, st.visiting \cup {serviceName}, st.ordered),
                         Get(deps, serviceName), subQs, deps)
       IN IF ~r.ok THEN r
          ELSE [ok |-> TRUE,
                st |-> VisitState(r.st.visited \cup {serviceName},
                                  r.st.visiting \ {serviceName},
                                  r.st.ordered \o FirstSubQueryOf(subQs, serviceName))]

\* for _, dep := range dependencies[serviceName] { if !visit(dep) { return false } }
VisitAll(st, depList, subQs, deps) ==
  IF depList = <<>> THEN [ok |-> TRUE, st |-> st]
  ELSE LET r == visit(st, Head(depList), subQs, deps)
       IN IF ~r.ok THEN r ELSE VisitAll(r.st, Tail(depList), subQs, deps)

\* for _, subQuery := range subQueries { visit(subQuery.ServiceName) }
RECURSIVE VisitEach(_, _, _, _)
VisitEach(st, rest, subQs, deps) ==
  IF rest = <<>> THEN st
  ELSE VisitEach(visit(st, Head(rest).ServiceName, subQs, deps).st, Tail(rest), subQs, deps)

\* Faulty variant: the sub-queries are returned in the order they came in.
optimizeQueryOrder_Unordered(subQs, deps) == subQs

optimizeQueryOrder(subQs, deps) == VisitEach(VisitState({}, {}, <<>>), subQs, subQs, deps).ordered

optimizeBatching(subQs) == IF Len(subQs) <= 1 THEN {subQs} ELSE GroupByService(subQs)

\* ------------------------------------------------ the planning state machine
\* Plans handed to OptimizePlan by a caller of the planner.
DependencyLists ==
  UNION {{f \in [PlanKeys(m) -> UNION {QueueOrders(m[s]) : s \in PlanKeys(m)}] :
            \A s \in PlanKeys(m) : f[s] \in QueueOrders(m[s])} :
         m \in DependencyMaps}
\* Plans of two sub-queries that may address the same service.
QueryTexts ==
  {"query { users }", "query { users orders }", "query { orders }",
   "query {\nusers\norders\n}", "mutation { pay }"}
VariableMaps == {<<>>, [id |-> 1], [id |-> 2, first |-> 10]}
SameServiceSubQueries ==
  {[SubQuery(name, text, timeout) EXCEPT !.Variables = variables] :
     name \in ConfiguredServices, text \in QueryTexts, variables \in VariableMaps,
     timeout \in {DefaultTimeout, DefaultTimeout + 1}}
SameServicePlans ==
  {ExecutionPlan(<<first, second>>, [s \in PlanServices |-> <<>>], "shallow") :
     first \in SameServiceSubQueries, second \in SameServiceSubQueries}

InputPlans ==
  {NilPlan} \cup SameServicePlans \cup
  {ExecutionPlan([i \in DOMAIN names |->
                    SubQuery(names[i], "query { " \o names[i] \o " }", DefaultTimeout)],
                 deps, "shallow") :
     names \in UNION {InjectiveSeqs(PlanServices, n) : n \in 0..MaxSubQueries},
     deps \in DependencyLists}

PlanIdle ==
  /\ planMode = "idle" /\ planPc = "returned"
  /\ query = <<>> /\ services = <<>> /\ enableQueryPlan = FALSE
  /\ fieldMappings = <<>> /\ pathsTodo = {}
  /\ plan = NilPlan /\ optimizedPlan = NilPlan /\ optErr = NilError
  /\ returnedPlan = NilPlan /\ planErr = NilError /\ warned = FALSE

PlanInit ==
  /\ planMode \in {"engine", "optimizer"}
  /\ planPc = IF planMode = "engine" THEN "create" ELSE "optimize"
  /\ query \in IF planMode = "engine" THEN Queries ELSE {<<>>}
  /\ services \in IF planMode = "engine" THEN ServiceLists ELSE {<<>>}
  /\ enableQueryPlan = FALSE
  /\ plan \in IF planMode = "engine" THEN {NilPlan} ELSE InputPlans
  /\ fieldMappings = <<>> /\ pathsTodo = {}
  /\ optimizedPlan = NilPlan /\ optErr = NilError
  /\ returnedPlan = NilPlan /\ planErr = NilError /\ warned = FALSE

\* createExecutionPlan calls CreateExecutionPlan, which rejects an empty
\* service list and otherwise maps the fields of the query to services.
CreateExecutionPlan ==
  /\ planMode = "engine" /\ planPc = "create"
  /\ IF Len(services) = 0
     THEN /\ planErr' = NewPlanningError("no services available")
          /\ planPc' = "returned"
          /\ UNCHANGED <<fieldMappings, pathsTodo, plan>>
     ELSE /\ fieldMappings' = analyzeFieldMappings(extractFieldPaths(query), services)
          /\ pathsTodo' = ContributingPaths(fieldMappings')
          /\ plan' = ExecutionPlan(<<>>, <<>>, "shallow")
          /\ planPc' = "dependencies"
          /\ UNCHANGED planErr
  /\ UNCHANGED <<planMode, query, services, enableQueryPlan, optimizedPlan, optErr,
                 returnedPlan, warned>>
  /\ UNCHANGED <<execVars, depVars, callVars, resVars, parseVars, healthVars, dirVars, mergeVars,
                 countVars, batchVars>>

\* buildDependencyGraph: one iteration of `for fieldPath, services := range
\* fieldMappings`. A list is kept without the entries the closing
\* uniqueAndFilterDependencies removes from it: a later repeat or the service
\* itself, whatever is appended after it.
BuildDependencyGraphStep ==
  /\ planMode = "engine" /\ planPc = "dependencies"
  /\ \E fieldPath \in pathsTodo :
       /\ pathsTodo' = pathsTodo \ {fieldPath}
       /\ \E deps \in AppendDependencies(plan.Dependencies, fieldMappings[fieldPath],
                                         fieldPath, fieldMappings) :
            plan' = [plan EXCEPT !.Dependencies =
                       [service \in DOMAIN deps |->
                          uniqueAndFilterDependencies(deps[service], service)]]
  /\ UNCHANGED <<planMode, planPc, query, services, enableQueryPlan, fieldMappings,
                 optimizedPlan, optErr, returnedPlan, planErr, warned>>
  /\ UNCHANGED <<execVars, depVars, callVars, resVars, parseVars, healthVars, dirVars, mergeVars,
                 countVars, batchVars>>

\* The end of buildDependencyGraph (the lists made unique), generateSubQueries
\* and determineMergeStrategy: CreateExecutionPlan returns the plan.
GenerateSubQueries ==
  /\ planMode = "engine" /\ planPc = "dependencies" /\ pathsTodo = {}
  /\ \E subQs \in generateSubQueries(fieldMappings, services) :
       plan' = ExecutionPlan(
                 subQs,
                 [service \in DOMAIN plan.Dependencies |->
                    uniqueAndFilterDependencies(plan.Dependencies[service], service)],
                 determineMergeStrategy(subQs))
  /\ planPc' = "validate"
  /\ UNCHANGED <<planMode, query, services, enableQueryPlan, fieldMappings, pathsTodo,
                 optimizedPlan, optErr, returnedPlan, planErr, warned>>
  /\ UNCHANGED <<execVars, depVars, callVars, resVars, parseVars, healthVars, dirVars, mergeVars,
                 countVars, batchVars>>

\* createExecutionPlan: ValidatePlan; its error fails the request, otherwise
\* the configuration is read: the plan is optimized when query planning is
\* enabled and returned as it is when not.
ValidateCreatedPlan ==
  /\ planMode = "engine" /\ planPc = "validate"
  /\ LET err == ValidatePlan(plan) IN
       IF err # NilError
       THEN planErr' = err /\ planPc' = "returned" /\ UNCHANGED <<returnedPlan, enableQueryPlan>>
       ELSE /\ enableQueryPlan' \in BOOLEAN
            /\ IF enableQueryPlan'
               THEN planPc' = "optimize" /\ UNCHANGED <<planErr, returnedPlan>>
               ELSE returnedPlan' = plan /\ planPc' = "returned" /\ UNCHANGED planErr
  /\ UNCHANGED <<planMode, query, services, fieldMappings, pathsTodo,
                 plan, optimizedPlan, optErr, warned>>
  /\ UNCHANGED <<execVars, depVars, callVars, resVars, parseVars, healthVars, dirVars, mergeVars,
                 countVars, batchVars>>

\* OptimizePlan: a nil plan is an error; otherwise the plan is copied and the
\* sub-queries of one service are merged.
OptimizePlan ==
  /\ planMode \in {"engine", "optimizer"} /\ planPc = "optimize"
  /\ IF plan = NilPlan
     THEN /\ optErr' = NewPlanningError("plan is nil")
          /\ planPc' = "optimized"
          /\ UNCHANGED optimizedPlan
     ELSE /\ \E merged \in mergeQueriesForSameService(plan.SubQueries) :
               optimizedPlan' = ExecutionPlan(merged, plan.Dependencies, plan.MergeStrategy)
          /\ planPc' = "merged"
          /\ UNCHANGED optErr
  /\ UNCHANGED <<planMode, query, services, enableQueryPlan, fieldMappings, pathsTodo,
                 plan, returnedPlan, planErr, warned>>
  /\ UNCHANGED <<execVars, depVars, callVars, resVars, parseVars, healthVars, dirVars, mergeVars,
                 countVars, batchVars>>

\* optimizedPlan.SubQueries = p.optimizeQueryOrder(...)
OptimizeQueryOrder ==
  /\ planPc = "merged"
  /\ optimizedPlan' = [optimizedPlan EXCEPT
                         !.SubQueries = optimizeQueryOrder(@, optimizedPlan.Dependencies)]
  /\ planPc' = "ordered"
  /\ UNCHANGED <<planMode, query, services, enableQueryPlan, fieldMappings, pathsTodo,
                 plan, optErr, returnedPlan, planErr, warned>>
  /\ UNCHANGED <<execVars, depVars, callVars, resVars, parseVars, healthVars, dirVars, mergeVars,
                 countVars, batchVars>>

\* optimizedPlan.SubQueries = p.optimizeBatching(...); OptimizePlan returns.
OptimizeBatching ==
  /\ planPc = "ordered"
  /\ \E batched \in optimizeBatching(optimizedPlan.SubQueries) :
       optimizedPlan' = [optimizedPlan EXCEPT !.SubQueries = batched]
  /\ planPc' = "optimized"
  /\ UNCHANGED <<planMode, query, services, enableQueryPlan, fieldMappings, pathsTodo,
                 plan, optErr, returnedPlan, planErr, warned>>
  /\ UNCHANGED <<execVars, depVars, callVars, resVars, parseVars, healthVars, dirVars, mergeVars,
                 countVars, batchVars>>

\* Faulty variant: the test on the optimizer's error is inverted.
OptimizedOrOriginal_Inverted(original, optimized, err) ==
  IF err = NilError
  THEN [plan |-> original, err |-> NilError, warned |-> TRUE]
  ELSE [plan |-> optimized, err |-> NilError, warned |-> FALSE]

\* if err != nil { Warn(...) } else { plan = optimizedPlan }; return plan, nil
OptimizedOrOriginal(original, optimized, err) ==
  IF err # NilError
  THEN [plan |-> original, err |-> NilError, warned |-> TRUE]
  ELSE [plan |-> optimized, err |-> NilError, warned |-> FALSE]

\* createExecutionPlan after OptimizePlan has returned.
ReturnPlan ==
  /\ planMode = "engine" /\ planPc = "optimized"
  /\ LET r == OptimizedOrOriginal(plan, optimizedPlan, optErr) IN
       /\ returnedPlan' = r.plan
       /\ planErr' = r.err
       /\ warned' = r.warned
  /\ planPc' = "returned"
  /\ UNCHANGED <<planMode, query, services, enableQueryPlan, fieldMappings, pathsTodo,
                 plan, optimizedPlan, optErr>>
  /\ UNCHANGED <<execVars, depVars, callVars, resVars, parseVars, healthVars, dirVars, mergeVars,
                 countVars, batchVars>>

PlanNext ==
  \/ CreateExecutionPlan
  \/ BuildDependencyGraphStep
  \/ GenerateSubQueries
  \/ ValidateCreatedPlan
  \/ OptimizePlan
  \/ OptimizeQueryOrder
  \/ OptimizeBatching
  \/ ReturnPlan

\* =====================================================================
\* Entity resolution (pkg/federation/entity_resolver.go)
\* =====================================================================
\* The largest number of representations handed to ResolveBatchEntities.
MaxRepresentations == 2

\* *FederationError values and plain fmt.Errorf errors
NewResolutionError(message) == [Code |-> "RESOLUTION_ERROR", Message |-> message]
NewQueryBuildingError(message) == [Code |-> "QUERY_BUILDING_ERROR", Message |-> message]
NewDataExtractionError(message) == [Code |-> "DATA_EXTRACTION_ERROR", Message |-> message]
NewValidationError(message) == [Code |-> "VALIDATION_ERROR", Message |-> message]
Errorf(text) == [Text |-> text]
\* err.Error()
ErrorText(err) ==
  IF "Code" \in DOMAIN err THEN "[" \o err.Code \o "] " \o err.Message ELSE err.Text
\* fmt.Errorf(prefix + ": %w", err) around any error
WrapError(prefix, err) == [Text |-> prefix \o ": " \o ErrorText(err), Unwrap |-> err]
\* errors.As(err, &fedErr) with code VALIDATION_ERROR
RECURSIVE IsValidationError(_)
IsValidationError(err) ==
  \/ "Code" \in DOMAIN err /\ err.Code = "VALIDATION_ERROR"
  \/ "Unwrap" \in DOMAIN err /\ IsValidationError(err.Unwrap)

\* ------------------------------------------------------------- inputs
ResolverServices == {"", "users-service"}
TypeNames == {"", "User", "Product"}
KeyFieldNames == {"id", "sku"}
\* RepresentationRequest.Representation: the key fields a caller supplied
RepresentationMaps == UNION {[ks -> {"1"}] : ks \in SUBSET KeyFieldNames}
RepresentationRequest(typeName, representation) ==
  [TypeName |-> typeName, Representation |-> representation]
RepresentationRequests ==
  {RepresentationRequest(t, m) : t \in TypeNames, m \in RepresentationMaps}
RepresentationLists ==
  UNION {[1..n -> RepresentationRequests] : n \in 0..MaxRepresentations}
\* types.KeyDirective and the part of types.FederatedEntity validation reads
KeyDirective(fields) == [Fields |-> fields, Resolvable |-> TRUE]
KeyLists == {<<>>, <<KeyDirective("id")>>, <<KeyDirective("id sku")>>,
             <<KeyDirective("id"), KeyDirective("sku")>>}
NilEntity == [nil |-> TRUE]
FederatedEntity(typeName, keys) == [TypeName |-> typeName, Directives |-> [Keys |-> keys]]
EntityInputs == {NilEntity} \cup {FederatedEntity("User", ks) : ks \in KeyLists}
\* What serviceCaller.Call and the service may answer.
EntityCallOutcomes == {"callError", "responseError", "nilData", "missing", "empty", "entities"}

\* ------------------------------------------------ ValidateRepresentation
\* strings.Fields, for fields separated by spaces
parseFieldSelection(fields) == SelectSeq(Split(fields, " "), LAMBDA f : f # "")
\* validateKeyFields: requiredKeys
RequiredKeys(e) ==
  UNION {Range(parseFieldSelection(e.Directives.Keys[i].Fields)) :
           i \in DOMAIN e.Directives.Keys}
\* validateKeyFields ranges over the map requiredKeys and returns at the
\* first missing key it meets: the set of errors it may return.
validateKeyFields(e, representation) ==
  LET missing == {k \in RequiredKeys(e) : k \notin DOMAIN representation} IN
    IF missing = {} THEN {NilError}
    ELSE {Errorf("missing required key field: " \o k) : k \in missing}
\* The set of errors ValidateRepresentation may return.
ValidateRepresentation(e, r) ==
  IF e = NilEntity THEN {NewValidationError("entity cannot be nil")}
  ELSE IF r.TypeName = "" THEN {NewValidationError("representation typename cannot be empty")}
  ELSE IF r.TypeName # e.TypeName
    THEN {Errorf("representation typename " \o r.TypeName
                   \o " does not match entity typename " \o e.TypeName)}
  ELSE {IF err = NilError THEN NilError ELSE WrapError("key field validation failed", err) :
          err \in validateKeyFields(e, r.Representation)}

\* ---------------------------------------------------------- ResolveEntity
\* The ServiceCall handed to serviceCaller.Call: the service, the request id,
\* the type of the query's "... on T" fragment and the representations variable.
EntityCall(service, requestId, typeName, reps) ==
  [Service |-> service, RequestID |-> requestId, TypeName |-> typeName,
   Representations |-> reps]
\* groupRepresentationsByType
groupRepresentationsByType(reps) ==
  [t \in {reps[i].TypeName : i \in DOMAIN reps} |->
     SelectSeq(reps, LAMBDA r : r.TypeName = t)]
\* extractRepresentationData
extractRepresentationData(reps) ==
  [i \in DOMAIN reps |-> Put(reps[i].Representation, "__typename", reps[i].TypeName)]
\* The entity a service returns for one representation.
EntityValue(typeName) == Obj(Put(<<>>, "__typename", Str(typeName)))
\* Call, response.Error and extractEntityFromResponse, by outcome:
\* the entity and the error ResolveEntity returns after its call.
ResolveEntityAnswer(outcome, typeName) ==
  CASE outcome = "callError" ->
         [value |-> Null, err |-> WrapError("service call failed", Errorf("call failed"))]
    [] outcome = "responseError" ->
         [value |-> Null, err |-> WrapError("service returned error", Errorf("service error"))]
    [] outcome = "nilData" ->
         [value |-> Null,
          err |-> WrapError("failed to extract entity data",
                            NewDataExtractionError("response data is nil"))]
    [] outcome = "missing" ->
         [value |-> Null,
          err |-> WrapError("failed to extract entity data",
                            NewDataExtractionError("_entities field not found in response"))]
    [] outcome = "empty" ->
         [value |-> Null,
          err |-> WrapError("failed to extract entity data",
                            NewDataExtractionError("no entity found in response"))]
    [] OTHER -> [value |-> EntityValue(typeName), err |-> NilError]
\* Call, response.Error and extractEntitiesFromResponse, by outcome:
\* the entities and the error of one type group of ResolveBatchEntities.
ResolveBatchAnswer(outcome, typeName, count) ==
  CASE outcome = "callError" ->
         [values |-> <<>>, err |-> WrapError("batch service call failed", Errorf("call failed"))]
    [] outcome = "responseError" ->
         [values |-> <<>>, err |-> WrapError("service returned error", Errorf("service error"))]
    [] outcome = "nilData" ->
         [values |-> <<>>,
          err |-> WrapError("failed to extract entities data",
                            NewDataExtractionError("response data is nil"))]
    [] outcome = "missing" ->
         [values |-> <<>>,
          err |-> WrapError("failed to extract entities data",
                            NewDataExtractionError("_entities field not found in response"))]
    [] outcome = "empty" -> [values |-> <<>>, err |-> NilError]
    [] OTHER -> [values |-> [i \in 1..count |-> EntityValue(typeName)], err |-> NilError]

\* --------------------------------------------- the resolver state machine
ResolveIdle ==
  /\ resOp = "none" /\ resPc = "returned" /\ resService = ""
  /\ resEntity = NilEntity /\ resRepresentations = <<>> /\ groupsTodo = {}
  /\ entityCalls = <<>> /\ resResult = Null /\ resErr = NilError

ResolveInit ==
  /\ resOp \in {"ResolveEntity", "ResolveBatchEntities", "ValidateRepresentation"}
  /\ resPc = "start"
  /\ resService \in IF resOp = "ValidateRepresentation" THEN {""} ELSE ResolverServices
  /\ resEntity \in EntityInputs
  /\ resRepresentations \in
       IF resOp = "ResolveBatchEntities" THEN RepresentationLists
       ELSE {<<r>> : r \in RepresentationRequests}
  /\ groupsTodo = {}
  /\ entityCalls = <<>> /\ resResult = Null /\ resErr = NilError

\* EntityResolverImpl.ResolveEntity
ResolveEntity ==
  /\ resOp = "ResolveEntity" /\ resPc = "start"
  /\ LET r == resRepresentations[1] IN
       IF resService = ""
       THEN /\ resErr' = NewResolutionError("service name cannot be empty")
            /\ UNCHANGED <<entityCalls, resResult>>
       ELSE IF r.TypeName = ""
       THEN /\ resErr' = WrapError("failed to build entity query",
                                   NewQueryBuildingError("typename cannot be empty"))
            /\ UNCHANGED <<entityCalls, resResult>>
       ELSE \E outcome \in EntityCallOutcomes :
              LET a == ResolveEntityAnswer(outcome, r.TypeName) IN
                /\ entityCalls' = Append(entityCalls,
                     EntityCall(resService, "entity-resolution", r.TypeName,
                                <<r.Representation>>))
                /\ resResult' = a.value
                /\ resErr' = a.err
  /\ resPc' = "returned"
  /\ UNCHANGED <<resOp, resService, resEntity, resRepresentations, groupsTodo>>
  /\ UNCHANGED <<execVars, depVars, callVars, planVars, parseVars, healthVars, dirVars, mergeVars,
                 countVars, batchVars>>

\* EntityResolverImpl.ResolveBatchEntities, up to the loop over typeGroups
ResolveBatchEntities ==
  /\ resOp = "ResolveBatchEntities" /\ resPc = "start"
  /\ IF resService = ""
     THEN /\ resErr' = NewResolutionError("service name cannot be empty")
          /\ resPc' = "returned"
          /\ UNCHANGED <<groupsTodo, resResult>>
     ELSE IF Len(resRepresentations) = 0
     THEN /\ resResult' = Arr(<<>>)
          /\ resPc' = "returned"
          /\ UNCHANGED <<groupsTodo, resErr>>
     ELSE /\ groupsTodo' = DOMAIN groupRepresentationsByType(resRepresentations)
          /\ resResult' = Arr(<<>>)
          /\ resPc' = "batch"
          /\ UNCHANGED resErr
  /\ UNCHANGED <<resOp, resService, resEntity, resRepresentations, entityCalls>>
  /\ UNCHANGED <<execVars, depVars, callVars, planVars, parseVars, healthVars, dirVars, mergeVars,
                 countVars, batchVars>>

\* One iteration of the loop over typeGroups, in the map's order, and the
\* return that ends the loop.
ResolveBatchGroup ==
  /\ resOp = "ResolveBatchEntities" /\ resPc = "batch"
  /\ \E typeName \in groupsTodo :
       LET typeRepresentations == groupRepresentationsByType(resRepresentations)[typeName] IN
         IF typeName = ""
         THEN /\ resErr' = WrapError("failed to build batch query for type " \o typeName,
                                     NewQueryBuildingError("typename cannot be empty"))
              /\ resResult' = Null
              /\ resPc' = "returned"
              /\ UNCHANGED <<entityCalls, groupsTodo>>
         ELSE \E outcome \in EntityCallOutcomes :
                LET a == ResolveBatchAnswer(outcome, typeName, Len(typeRepresentations)) IN
                  /\ entityCalls' = Append(entityCalls,
                       EntityCall(resService, "batch-entity-resolution", typeName,
                                  extractRepresentationData(typeRepresentations)))
                  /\ IF a.err # NilError
                     THEN /\ resErr' = a.err
                          /\ resResult' = Null
                          /\ resPc' = "returned"
                          /\ UNCHANGED groupsTodo
                     ELSE /\ resResult' = Arr(resResult.a \o a.values)
                          /\ groupsTodo' = groupsTodo \ {typeName}
                          /\ resPc' = IF groupsTodo' = {} THEN "returned" ELSE "batch"
                          /\ UNCHANGED resErr
  /\ UNCHANGED <<resOp, resService, resEntity, resRepresentations>>
  /\ UNCHANGED <<execVars, depVars, callVars, planVars, parseVars, healthVars, dirVars, mergeVars,
                 countVars, batchVars>>

\* EntityResolverImpl.ValidateRepresentation
ValidateRepresentationCall ==
  /\ resOp = "ValidateRepresentation" /\ resPc = "start"
  /\ \E err \in ValidateRepresentation(resEntity, resRepresentations[1]) : resErr' = err
  /\ resPc' = "returned"
  /\ UNCHANGED <<resOp, resService, resEntity, resRepresentations, groupsTodo,
                 entityCalls, resResult>>
  /\ UNCHANGED <<execVars, depVars, callVars, planVars, parseVars, healthVars, dirVars, mergeVars,
                 countVars, batchVars>>

ResolveNext ==
  \/ ResolveEntity
  \/ ResolveBatchEntities
  \/ ResolveBatchGroup
  \/ ValidateRepresentationCall

\* =====================================================================
\* Query analysis (pkg/parser) and the limits check of Engine.ExecuteQuery
\* =====================================================================
\* The deepest nesting of selection sets in a parsed query, as a number of sets.
MaxNesting == 53
\* calculateDepthWithVisited: maxAllowedDepth
maxAllowedDepth == 50

NewQueryComplexityError(message) == [Code |-> "QUERY_COMPLEXITY_ERROR", Message |-> message]

\* ast.Document, as far as the analysis reads it: SelectionSets[ref] is the
\* list of selections of a set, each with its kind and, for a field or an
\* inline fragment, the ref of its own selection set (-1 for none); Root is
\* the selection set of the operation.
SelectionSetRefs == {1, 2}
Documents ==
  LET selections ==
        {[Kind |-> "fragmentSpread", SelectionSet |-> -1]} \cup
        {[Kind |-> k, SelectionSet |-> s] :
           k \in {"field", "inlineFragment"}, s \in SelectionSetRefs \cup {-1}}
      lists == UNION {[1..n -> selections] : n \in 0..2}
  IN {[SelectionSets |-> sets, Root |-> 1] : sets \in [SelectionSetRefs -> lists]}
\* What the parser builds from a query text nested n sets deep: a tree.
NestedDocument(n) ==
  [SelectionSets |-> [i \in 1..n |->
      <<[Kind |-> "field", SelectionSet |-> IF i < n THEN i + 1 ELSE -1]>>],
   Root |-> 1]
\* FederationConfig.MaxQueryDepth: no limit, a small one, one above the ceiling.
MaxQueryDepths == {0, 1, maxAllowedDepth + 1}

\* An activation of calculateDepthWithVisited or calculateComplexityWithVisited:
\* its selection set, its currentDepth, the selection its loop is at, and its
\* maxDepth or complexity so far.
Frame(set, depth, idx, acc) == [set |-> set, depth |-> depth, idx |-> idx, acc |-> acc]
\* Faulty variant: the recursion has no ceiling.
ExceedsCeiling_Never(currentDepth) == FALSE

\* if currentDepth > maxAllowedDepth
ExceedsCeiling(currentDepth) == currentDepth > maxAllowedDepth

\* Faulty variant: no selection set is ever marked as visited.
Visited_None(frames) == {}

\* The map visited: a set is marked while its activation is on the stack.
Visited(frames) == {frames[i].set : i \in DOMAIN frames}

ParseIdle ==
  /\ parseMode = "idle" /\ parsePc = "returned" /\ document = NestedDocument(0)
  /\ calcStack = <<>> /\ parsedDepth = 0 /\ parsedComplexity = 0
  /\ depthWarned = FALSE /\ maxQueryDepth = 0 /\ requestErr = NilError
  /\ planMade = FALSE /\ subQueriesSent = FALSE

\* Either the analysis alone, on any document, or a request, on a parsed one.
ParseInit ==
  /\ parseMode \in {"analyze", "request"}
  /\ parsePc = "parse"
  /\ document \in IF parseMode = "analyze" THEN Documents
                  ELSE {NestedDocument(n) : n \in 1..MaxNesting}
  /\ maxQueryDepth \in IF parseMode = "analyze" THEN {0} ELSE MaxQueryDepths
  /\ calcStack = <<>> /\ parsedDepth = 0 /\ parsedComplexity = 0
  /\ depthWarned = FALSE /\ requestErr = NilError
  /\ planMade = FALSE /\ subQueriesSent = FALSE

\* analyzeDocument: parsed.Depth = p.calculateDepth(document, root, 0) begins.
AnalyzeDocument ==
  /\ parseMode # "idle" /\ parsePc = "parse"
  /\ calcStack' = <<Frame(document.Root, 0, 1, 0)>>
  /\ parsePc' = "depth"
  /\ UNCHANGED <<parseMode, document, parsedDepth, parsedComplexity, depthWarned,
                 maxQueryDepth, requestErr, planMade, subQueriesSent>>
  /\ UNCHANGED <<execVars, depVars, callVars, planVars, resVars, healthVars, dirVars, mergeVars,
                 countVars, batchVars>>

\* One step of calculateDepthWithVisited: the loop of the innermost
\* activation looks at its next selection, or the activation returns.
CalculateDepthStep ==
  /\ parsePc = "depth"
  /\ LET n == Len(calcStack)
         f == calcStack[n]
         sels == document.SelectionSets[f.set]
         max(a, b) == IF a > b THEN a ELSE b
     IN IF f.idx > Len(sels)
        THEN \* return maxDepth
             IF n = 1
             THEN /\ parsedDepth' = f.acc
                  /\ calcStack' = <<Frame(document.Root, 0, 1, 0)>>
                  /\ parsePc' = "complexity"
                  /\ UNCHANGED depthWarned
             ELSE /\ calcStack' = [SubSeq(calcStack, 1, n - 1) EXCEPT
                                     ![n - 1].acc = max(@, f.acc), ![n - 1].idx = @ + 1]
                  /\ UNCHANGED <<parsedDepth, parsePc, depthWarned>>
        ELSE LET s == sels[f.idx]
                 d == IF s.Kind = "field" THEN f.depth + 1 ELSE f.depth
             IN IF s.Kind = "fragmentSpread" \/ s.SelectionSet = -1
                THEN /\ calcStack' = [calcStack EXCEPT ![n].idx = @ + 1]
                     /\ UNCHANGED <<parsedDepth, parsePc, depthWarned>>
                ELSE IF s.SelectionSet \in Visited(calcStack)
                THEN /\ calcStack' = [calcStack EXCEPT ![n].acc = max(@, d), ![n].idx = @ + 1]
                     /\ UNCHANGED <<parsedDepth, parsePc, depthWarned>>
                ELSE IF ExceedsCeiling(d)
                THEN /\ calcStack' = [calcStack EXCEPT ![n].acc = max(@, d), ![n].idx = @ + 1]
                     /\ depthWarned' = TRUE
                     /\ UNCHANGED <<parsedDepth, parsePc>>
                ELSE /\ calcStack' = Append(calcStack, Frame(s.SelectionSet, d, 1, d))
                     /\ UNCHANGED <<parsedDepth, parsePc, depthWarned>>
  /\ UNCHANGED <<parseMode, document, parsedComplexity, maxQueryDepth, requestErr,
                 planMade, subQueriesSent>>
  /\ UNCHANGED <<execVars, depVars, callVars, planVars, resVars, healthVars, dirVars, mergeVars,
                 countVars, batchVars>>

\* One step of calculateComplexityWithVisited; when the outermost activation
\* returns, analyzeDocument returns the parsed query.
CalculateComplexityStep ==
  /\ parsePc = "complexity"
  /\ LET n == Len(calcStack)
         f == calcStack[n]
         sels == document.SelectionSets[f.set]
     IN IF f.idx > Len(sels)
        THEN \* return complexity
             IF n = 1
             THEN /\ parsedComplexity' = f.acc
                  /\ calcStack' = <<>>
                  /\ parsePc' = IF parseMode = "request" THEN "limits" ELSE "returned"
             ELSE /\ calcStack' = [SubSeq(calcStack, 1, n - 1) EXCEPT
                                     ![n - 1].acc = @ + f.acc, ![n - 1].idx = @ + 1]
                  /\ UNCHANGED <<parsedComplexity, parsePc>>
        ELSE LET s == sels[f.idx]
                 own == IF s.Kind = "field" THEN 1 ELSE 0
             IN IF \/ s.Kind = "fragmentSpread" \/ s.SelectionSet = -1
                   \/ s.SelectionSet \in Visited(calcStack)
                THEN /\ calcStack' = [calcStack EXCEPT ![n].acc = @ + own, ![n].idx = @ + 1]
                     /\ UNCHANGED <<parsedComplexity, parsePc>>
                ELSE /\ calcStack' = Append([calcStack EXCEPT ![n].acc = @ + own],
                                            Frame(s.SelectionSet, 0, 1, 0))
                     /\ UNCHANGED <<parsedComplexity, parsePc>>
  /\ UNCHANGED <<parseMode, document, parsedDepth, depthWarned, maxQueryDepth,
                 requestErr, planMade, subQueriesSent>>
  /\ UNCHANGED <<execVars, depVars, callVars, planVars, resVars, healthVars, dirVars, mergeVars,
                 countVars, batchVars>>

\* ExecuteQuery: validateQueryLimits and the return of its error.
ValidateQueryLimits ==
  /\ parsePc = "limits"
  /\ IF maxQueryDepth > 0 /\ parsedDepth > maxQueryDepth
     THEN /\ requestErr' = NewQueryComplexityError(
               "query depth " \o ToString(parsedDepth) \o " exceeds maximum "
                 \o ToString(maxQueryDepth))
          /\ parsePc' = "returned"
     ELSE /\ parsePc' = "plan"
          /\ UNCHANGED requestErr
  /\ UNCHANGED <<parseMode, document, calcStack, parsedDepth, parsedComplexity,
                 depthWarned, maxQueryDepth, planMade, subQueriesSent>>
  /\ UNCHANGED <<execVars, depVars, callVars, planVars, resVars, healthVars, dirVars, mergeVars,
                 countVars, batchVars>>

\* ExecuteQuery: createExecutionPlan returns a plan or an error.
CreatePlanForRequest ==
  /\ parsePc = "plan"
  /\ \/ planMade' = TRUE /\ parsePc' = "execute" /\ UNCHANGED requestErr
     \/ /\ requestErr' = Wrap("planning failed", NewPlanningError("plan has no sub-queries"))
        /\ parsePc' = "returned"
        /\ UNCHANGED planMade
  /\ UNCHANGED <<parseMode, document, calcStack, parsedDepth, parsedComplexity,
                 depthWarned, maxQueryDepth, subQueriesSent>>
  /\ UNCHANGED <<execVars, depVars, callVars, planVars, resVars, healthVars, dirVars, mergeVars,
                 countVars, batchVars>>

\* ExecuteQuery: executePlan dispatches the sub-queries and returns.
ExecutePlanForRequest ==
  /\ parsePc = "execute"
  /\ subQueriesSent' = TRUE
  /\ \/ UNCHANGED requestErr
     \/ requestErr' = Errorf("execution failed: " \o DeadlineExceeded)
  /\ parsePc' = "returned"
  /\ UNCHANGED <<parseMode, document, calcStack, parsedDepth, parsedComplexity,
                 depthWarned, maxQueryDepth, planMade>>
  /\ UNCHANGED <<execVars, depVars, callVars, planVars, resVars, healthVars, dirVars, mergeVars,
                 countVars, batchVars>>

ParseNext ==
  \/ AnalyzeDocument
  \/ CalculateDepthStep
  \/ CalculateComplexityStep
  \/ ValidateQueryLimits
  \/ CreatePlanForRequest
  \/ ExecutePlanForRequest

\* =====================================================================
\* The health cache of the service caller (WASMCaller.IsHealthy)
\* =====================================================================
\* CallerConfig.HealthCheckCache: the time an entry stays valid, in clock ticks.
HealthCheckCache == 2
\* The last tick of the clock.
MaxHealthTime == 3

HealthCallers == {1, 2}
NoEntry == [none |-> TRUE]
\* HealthStatus, as far as IsHealthy writes and reads it
HealthStatus(healthy, lastCheck) == [Healthy |-> healthy, LastCheck |-> lastCheck]
\* A goroutine inside or between calls of IsHealthy.
HealthCall(at, service, loaded, status, answer, from, since) ==
  [pc |-> at, service |-> service, loaded |-> loaded, status |-> status,
   answer |-> answer, from |-> from, since |-> since]

\* Faulty variant: an entry is valid whatever its age.
StillValid_Always(status, clock) == TRUE

\* time.Since(status.LastCheck) < c.config.HealthCheckCache
StillValid(status, clock) == clock - status.LastCheck < HealthCheckCache

HealthIdle ==
  /\ healthNow = 0 /\ healthCache = <<>> /\ healthCalls = <<>>

\* NewWASMCaller: an empty cache; no call of IsHealthy has begun.
HealthInit ==
  /\ healthNow = 0
  /\ healthCache = [s \in ConfiguredServices |-> NoEntry]
  /\ healthCalls = [c \in HealthCallers |->
                      HealthCall("idle", "", NoEntry, NoEntry, FALSE, "", 0)]

\* IsHealthy is called: a nil service is answered at once.
IsHealthyCalled(c) ==
  /\ healthCalls[c].pc \in {"idle", "returned"}
  /\ \E service \in ConfiguredServices \cup {"<nil>"} :
       healthCalls' = [healthCalls EXCEPT ![c] =
         IF service = "<nil>"
         THEN HealthCall("returned", service, NoEntry, NoEntry, FALSE, "nil", healthNow)
         ELSE HealthCall("load", service, NoEntry, NoEntry, FALSE, "", healthNow)]
  /\ UNCHANGED <<healthNow, healthCache>>
  /\ UNCHANGED <<execVars, depVars, callVars, planVars, resVars, parseVars, dirVars, mergeVars,
                 countVars, batchVars>>

\* c.healthCache.Load(service.Name)
HealthLoad(c) ==
  /\ healthCalls[c].pc = "load"
  /\ healthCalls' = [healthCalls EXCEPT ![c].loaded = healthCache[healthCalls[c].service],
                                        ![c].pc = "compare"]
  /\ UNCHANGED <<healthNow, healthCache>>
  /\ UNCHANGED <<execVars, depVars, callVars, planVars, resVars, parseVars, dirVars, mergeVars,
                 countVars, batchVars>>

\* The test of the loaded entry's age: it answers, or a fresh check follows,
\* whose status carries time.Now().
HealthCompare(c) ==
  /\ healthCalls[c].pc = "compare"
  /\ LET call == healthCalls[c] IN
       healthCalls' = [healthCalls EXCEPT ![c] =
         IF call.loaded # NoEntry /\ StillValid(call.loaded, healthNow)
         THEN [call EXCEPT !.answer = call.loaded.Healthy, !.from = "cache",
                           !.since = healthNow, !.pc = "returned"]
         ELSE [call EXCEPT !.status = HealthStatus(TRUE, healthNow),
                           !.since = healthNow, !.pc = "store"]]
  /\ UNCHANGED <<healthNow, healthCache>>
  /\ UNCHANGED <<execVars, depVars, callVars, planVars, resVars, parseVars, dirVars, mergeVars,
                 countVars, batchVars>>

\* c.healthCache.Store(service.Name, status); return healthy
HealthStore(c) ==
  /\ healthCalls[c].pc = "store"
  /\ healthCache' = [healthCache EXCEPT ![healthCalls[c].service] = healthCalls[c].status]
  /\ healthCalls' = [healthCalls EXCEPT ![c].answer = healthCalls[c].status.Healthy,
                                        ![c].from = "fresh", ![c].pc = "returned"]
  /\ UNCHANGED healthNow
  /\ UNCHANGED <<execVars, depVars, callVars, planVars, resVars, parseVars, dirVars, mergeVars,
                 countVars, batchVars>>

\* Time passes.
HealthTick ==
  /\ healthCalls # <<>> /\ healthNow < MaxHealthTime
  /\ healthNow' = healthNow + 1
  /\ UNCHANGED <<healthCache, healthCalls>>
  /\ UNCHANGED <<execVars, depVars, callVars, planVars, resVars, parseVars, dirVars, mergeVars,
                 countVars, batchVars>>

\* The steps of one goroutine.
HealthStep(c) == IsHealthyCalled(c) \/ HealthLoad(c) \/ HealthCompare(c) \/ HealthStore(c)

HealthNext ==
  \/ \E c \in HealthCallers : IsHealthyCalled(c)
  \/ \E c \in HealthCallers : HealthLoad(c)
  \/ \E c \in HealthCallers : HealthCompare(c)
  \/ \E c \in HealthCallers : HealthStore(c)
  \/ HealthTick

\* =====================================================================
\* Federation directives: validation and query execution
\* =====================================================================
\* The longest list of entities handed to the engine.
MaxFederatedEntities == 1

NilDirective == [nil |-> TRUE]
IdentStart ==
  {"a", "b", "c", "d", "e", "f", "g", "h", "i", "j", "k", "l", "m", "n", "o", "p", "q",
   "r", "s", "t", "u", "v", "w", "x", "y", "z", "_"}
IdentPart == IdentStart \cup {"0", "1", "2", "3", "4", "5", "6", "7", "8", "9"}
\* [a-zA-Z_][a-zA-Z0-9_]* over texts written in lower case
IsIdentifier(word) ==
  /\ word # "" /\ SubSeq(word, 1, 1) \in IdentStart
  /\ \A i \in 2..Len(word) : SubSeq(word, i, i) \in IdentPart

\* validateFieldSelection: a trimmed text of identifiers separated by white
\* space (a text trimmed and split at blanks has no empty word exactly when
\* single blanks separate its words; the texts considered have no other
\* white space).
validateFieldSelection(fields) ==
  IF TrimSpace(fields) = "" THEN NewValidationError("field selection cannot be empty")
  ELSE LET words == SelectSeq(Split(TrimSpace(fields), " "), LAMBDA w : w # "")
       IN IF \A i \in DOMAIN words : IsIdentifier(words[i]) THEN NilError
          ELSE Errorf("invalid field selection format: " \o fields)

\* types.EntityDirectives: External, Requires and Provides are pointers.
EntityDirectives(keys, external, requires, provides) ==
  [Keys |-> keys, External |-> external, Requires |-> requires, Provides |-> provides]

\* Faulty variant: the combination is never looked at.
RequiresWithoutExternal_Never(directives) == FALSE

\* directives.Requires != nil && directives.External == nil
RequiresWithoutExternal(directives) ==
  directives.Requires # NilDirective /\ directives.External = NilDirective

\* The error of the first key that has one.
RECURSIVE ValidateKeys(_, _)
ValidateKeys(keys, i) ==
  IF i > Len(keys) THEN NilError
  ELSE IF keys[i].Fields = ""
  THEN Errorf("@key directive " \o ToString(i - 1) \o " has empty fields")
  ELSE IF validateFieldSelection(keys[i].Fields) # NilError
  THEN WrapError("@key directive " \o ToString(i - 1) \o " has invalid fields",
                 validateFieldSelection(keys[i].Fields))
  ELSE ValidateKeys(keys, i + 1)

ValidateDirectives(directives) ==
  IF directives = NilDirective THEN NewValidationError("directives cannot be nil")
  ELSE IF ValidateKeys(directives.Keys, 1) # NilError THEN ValidateKeys(directives.Keys, 1)
  ELSE IF RequiresWithoutExternal(directives)
  THEN NewValidationError("@requires directive requires the field to be marked as @external")
  ELSE IF directives.Provides # NilDirective
          /\ validateFieldSelection(directives.Provides.Fields) # NilError
  THEN WrapError("@provides directive has invalid fields",
                 validateFieldSelection(directives.Provides.Fields))
  ELSE NilError

\* The error of the first field of an entity that has one.
RECURSIVE ValidateFields(_, _, _)
ValidateFields(typeName, fields, i) ==
  IF i > Len(fields) THEN NilError
  ELSE IF ValidateDirectives(fields[i].Directives) # NilError
  THEN WrapError("field " \o typeName \o "." \o fields[i].Name \o " directive validation failed",
                 ValidateDirectives(fields[i].Directives))
  ELSE ValidateFields(typeName, fields, i + 1)

RECURSIVE validateFederationEntities(_)
validateFederationEntities(list) ==
  IF list = <<>> THEN NilError
  ELSE LET entity == Head(list) IN
    IF ValidateDirectives(entity.Directives) # NilError
    THEN WrapError("entity " \o entity.TypeName \o " directive validation failed",
                   ValidateDirectives(entity.Directives))
    ELSE IF ValidateFields(entity.TypeName, entity.Fields, 1) # NilError
    THEN ValidateFields(entity.TypeName, entity.Fields, 1)
    ELSE validateFederationEntities(Tail(list))

\* ------------------------------------------------------------- inputs
FieldsDirective(fields) == [Fields |-> fields]
ExternalDirective == [external |-> TRUE]
DirectiveKeyLists ==
  {<<>>, <<KeyDirective("id")>>, <<KeyDirective("")>>, <<KeyDirective("id,email")>>}
DirectiveSets ==
  {EntityDirectives(keys, external, requires, provides) :
     keys \in DirectiveKeyLists,
     external \in {NilDirective, ExternalDirective},
     requires \in {NilDirective, FieldsDirective("email")},
     provides \in {NilDirective, FieldsDirective("name"), FieldsDirective("na-me")}}
FieldDirectiveSets ==
  {EntityDirectives(<<>>, external, requires, NilDirective) :
     external \in {NilDirective, ExternalDirective},
     requires \in {NilDirective, FieldsDirective("email")}}
DirectedEntities ==
  {[TypeName |-> "User", Directives |-> directives, Fields |-> fields] :
     directives \in {d \in DirectiveSets :
                       d.Provides = NilDirective /\ d.Keys # <<KeyDirective("id,email")>>},
     fields \in {<<>>} \cup {<<[Name |-> "email", Directives |-> d]>> : d \in FieldDirectiveSets}}
DirectedEntityLists ==
  UNION {[1..n -> DirectedEntities] : n \in 0..MaxFederatedEntities}

\* ----------------------------------------------------------- the engine
DirectivesIdle ==
  /\ dirOp = "none" /\ dirPc = "returned" /\ dirInput = <<>>
  /\ dirErr = NilError /\ federatedSchema = NilDirective /\ directivesValidated = FALSE

\* A call of ValidateDirectives, of ProcessFederationDirectives on a schema
\* that declares the entities, or of ExecuteFederationQuery with the entities.
DirectivesInit ==
  /\ dirOp \in {"ValidateDirectives", "ProcessFederationDirectives", "ExecuteFederationQuery"}
  /\ dirInput \in IF dirOp = "ValidateDirectives"
                  THEN DirectiveSets \cup {NilDirective} ELSE DirectedEntityLists
  /\ dirPc = IF dirOp = "ProcessFederationDirectives" THEN "extract" ELSE "called"
  /\ dirErr = NilError /\ federatedSchema = NilDirective /\ directivesValidated = FALSE

ValidateDirectivesCall ==
  /\ dirOp = "ValidateDirectives" /\ dirPc = "called"
  /\ dirErr' = ValidateDirectives(dirInput)
  /\ directivesValidated' = TRUE
  /\ dirPc' = "returned"
  /\ UNCHANGED <<dirOp, dirInput, federatedSchema>>
  /\ UNCHANGED <<execVars, depVars, callVars, planVars, resVars, parseVars, healthVars, mergeVars,
                 countVars, batchVars>>

\* ProcessFederationDirectives: the entities are extracted from the schema,
\* which the parser may refuse.
ExtractFederationEntities ==
  /\ dirOp = "ProcessFederationDirectives" /\ dirPc = "extract"
  /\ \E extracted \in BOOLEAN :
       IF extracted
       THEN dirPc' = "validate" /\ UNCHANGED dirErr
       ELSE /\ dirErr' = WrapError("failed to extract Federation entities",
                                   Errorf("schema parsing failed"))
            /\ dirPc' = "returned"
  /\ UNCHANGED <<dirOp, dirInput, federatedSchema, directivesValidated>>
  /\ UNCHANGED <<execVars, depVars, callVars, planVars, resVars, parseVars, healthVars, mergeVars,
                 countVars, batchVars>>

\* ProcessFederationDirectives: the entities are validated and the schema built.
ValidateFederationEntities ==
  /\ dirOp = "ProcessFederationDirectives" /\ dirPc = "validate"
  /\ directivesValidated' = TRUE
  /\ IF validateFederationEntities(dirInput) # NilError
     THEN /\ dirErr' = WrapError("Federation entities validation failed",
                                 validateFederationEntities(dirInput))
          /\ UNCHANGED federatedSchema
     ELSE /\ federatedSchema' = [Entities |-> dirInput, Version |-> "1.0"]
          /\ UNCHANGED dirErr
  /\ dirPc' = "returned"
  /\ UNCHANGED <<dirOp, dirInput>>
  /\ UNCHANGED <<execVars, depVars, callVars, planVars, resVars, parseVars, healthVars, mergeVars,
                 countVars, batchVars>>

\* ExecuteFederationQuery: the query is parsed, planned over the entities and
\* executed; each of the three may fail, and none validates a directive.
ExecuteFederationQuery ==
  /\ dirOp = "ExecuteFederationQuery" /\ dirPc = "called"
  /\ \E failed \in {"", "query parsing failed", "Federation planning failed",
                    "Federation execution failed"} :
       dirErr' = IF failed = "" THEN NilError ELSE WrapError(failed, Errorf("failed"))
  /\ dirPc' = "returned"
  /\ UNCHANGED <<dirOp, dirInput, federatedSchema, directivesValidated>>
  /\ UNCHANGED <<execVars, depVars, callVars, planVars, resVars, parseVars, healthVars, mergeVars,
                 countVars, batchVars>>

DirectivesNext ==
  \/ ValidateDirectivesCall
  \/ ExtractFederationEntities
  \/ ValidateFederationEntities
  \/ ExecuteFederationQuery

\* =====================================================================
\* The response merger called on its own
\* =====================================================================
\* The longest list of responses handed to MergeResponses.
MaxResponses == 2
\* The deepest nesting of objects in the data of responses merged twice.
MaxHeapNesting == 3

\* An object nested n deep under the key "a", with one leaf at the bottom.
RECURSIVE NestedObject(_, _)
NestedObject(n, leaf) ==
  IF n <= 1 THEN Obj([k \in {leaf} |-> Num(1)])
  ELSE Obj([k \in {"a"} |-> NestedObject(n - 1, leaf)])

MergeData ==
  {Obj([k \in {"a"} |-> Num(1)]), Obj([k \in {"a"} |-> Num(2)]),
   Obj([k \in {"a"} |-> Null]), Obj([k \in {"b"} |-> Num(1)]),
   Obj([k \in {"a"} |-> Obj([j \in {"x"} |-> Num(1)])]),
   Obj([k \in {"a"} |-> Obj([j \in {"y"} |-> Num(2)])]),
   NestedObject(MaxDepth + 2, "x"), NestedObject(MaxDepth + 2, "y")}

\* A *ServiceResponse as the merger reads it.
ServiceResponse(svc, data, errs, err) ==
  [Service |-> svc, Data |-> data, Errors |-> errs, Error |-> err, Latency |-> 0,
   HasHeaders |-> FALSE, Metadata |-> Null]

MergeInputs ==
  {ServiceResponse("users-service", data, <<>>, NoErr) : data \in MergeData} \cup
  {ServiceResponse("users-service", data, <<GqlError("boom", "X", "")>>, NoErr) :
     data \in {Null, Obj([k \in {"a"} |-> Num(1)])}} \cup
  {ServiceResponse("users-service", Null, <<>>, TimeoutError)}

MergeIdle ==
  /\ mergePc = "returned" /\ mergeInput = <<>> /\ mergePlan = NilPlan
  /\ conflictPolicy = "first" /\ mergeResult = NilResponse
  /\ mergeHeap = <<>> /\ mergeRefs = <<>> /\ mergeRuns = <<>>

\* NewResponseMerger with a conflict policy (the null policy is the default,
\* skip), and the arguments of one call of MergeResponses.
MergeInit ==
  /\ mergePc = "called"
  /\ mergeInput \in UNION {[1..n -> MergeInputs] : n \in 0..MaxResponses}
  /\ mergePlan \in {NilPlan} \cup
                   {ExecutionPlan(<<>>, <<>>, strategy) : strategy \in MergeStrategies}
  /\ conflictPolicy \in ConflictPolicies
  /\ mergeResult = NilResponse
  /\ mergeHeap = <<>> /\ mergeRefs = <<>> /\ mergeRuns = <<>>

\* MergeResponses: without a plan the strategy is shallow.
MergeStrategyOf(p) == IF p = NilPlan THEN "shallow" ELSE p.MergeStrategy

MergeResponsesCall ==
  /\ mergePc = "called" /\ mergeRefs = <<>>
  /\ mergeResult' = MergeResponses(mergeInput, MergeStrategyOf(mergePlan), conflictPolicy)
  /\ mergePc' = "returned"
  /\ UNCHANGED <<mergeInput, mergePlan, conflictPolicy, mergeHeap, mergeRefs, mergeRuns>>
  /\ UNCHANGED <<execVars, depVars, callVars, planVars, resVars, parseVars, healthVars,
                 dirVars, countVars, batchVars>>

MergeNext == MergeResponsesCall

\* ------------------------------- the merger called twice on shared maps
\* Responses whose data nest at most MaxHeapNesting objects, with and
\* without headers and metadata, errors and a failed call.
SharedData ==
  {Obj([k \in {"a"} |-> Num(1)]), Obj([k \in {"a"} |-> Str("u")]),
   Obj([k \in {"a"} |-> Null]), Obj([k \in {"b"} |-> Num(1)]),
   Obj([k \in {"a"} |-> Obj([j \in {"x"} |-> Num(1)])]),
   NestedObject(MaxHeapNesting, "x"), NestedObject(MaxHeapNesting, "y")}

SharedInputs ==
  {ServiceResponse("users-service", data, <<>>, NoErr) : data \in SharedData} \cup
  {ServiceResponse("users-service", data, <<GqlError("boom", "X", "")>>, NoErr) :
     data \in {Null, Obj([k \in {"a"} |-> Num(1)])}} \cup
  {ServiceResponse("users-service", Null, <<>>, TimeoutError)} \cup
  {[ServiceResponse(svc, Obj([k \in {"a"} |-> Num(1)]), <<>>, NoErr) EXCEPT
      !.HasHeaders = TRUE, !.Metadata = Obj([k \in {"status_code"} |-> Num(200)])] :
     svc \in ConfiguredServices}

\* The responses and their maps exist before the merger is called.
MergeTwiceInit ==
  /\ mergePc = "called"
  /\ mergeInput \in UNION {[1..n -> SharedInputs] : n \in 0..MaxResponses}
  /\ mergePlan \in {NilPlan} \cup
                   {ExecutionPlan(<<>>, <<>>, strategy) : strategy \in MergeStrategies}
  /\ conflictPolicy \in ConflictPolicies
  /\ mergeResult = NilResponse
  /\ mergeHeap = InternResponses(<<>>, mergeInput).h
  /\ mergeRefs = InternResponses(<<>>, mergeInput).resps
  /\ mergeRuns = <<>>

\* MergeResponses, writing to maps as the code does.
MergeResponsesOnMaps ==
  /\ mergePc = "called" /\ Len(mergeRefs) = Len(mergeInput)
  /\ mergeResult' = MergeResponses(mergeInput, MergeStrategyOf(mergePlan), conflictPolicy)
  /\ LET run == MergeResponsesHeap(mergeHeap, mergeRefs, MergeStrategyOf(mergePlan),
                                   conflictPolicy)
     IN mergeHeap' = run.h /\ mergeRuns' = <<run.result>>
  /\ mergePc' = "returned"
  /\ UNCHANGED <<mergeInput, mergePlan, conflictPolicy, mergeRefs>>
  /\ UNCHANGED <<execVars, depVars, callVars, planVars, resVars, parseVars, healthVars,
                 dirVars, countVars, batchVars>>

\* The same merger is handed the same responses a second time.
MergeResponsesAgain ==
  /\ mergePc = "returned" /\ Len(mergeRuns) = 1
  /\ LET run == MergeResponsesHeap(mergeHeap, mergeRefs, MergeStrategyOf(mergePlan),
                                   conflictPolicy)
     IN mergeHeap' = run.h /\ mergeRuns' = Append(mergeRuns, run.result)
  /\ mergePc' = "repeated"
  /\ UNCHANGED <<mergeInput, mergePlan, conflictPolicy, mergeRefs, mergeResult>>
  /\ UNCHANGED <<execVars, depVars, callVars, planVars, resVars, parseVars, healthVars,
                 dirVars, countVars, batchVars>>

MergeTwiceNext == MergeResponsesOnMaps \/ MergeResponsesAgain

\* =====================================================================
\* The engine's counters: Engine.ExecuteQuery and
\* Engine.ExecuteFederationQuery called from several goroutines
\* =====================================================================
\* The goroutines calling the engine, each once.
MaxEngineCalls == 2

EngineCallers == 1..MaxEngineCalls
\* The stages of ExecuteQuery after the request was counted, and of
\* ExecuteFederationQuery, each of which returns an error for some requests.
QueryStages == <<"ParseQuery", "validateQueryLimits", "createExecutionPlan", "executePlan">>
FederationStages == <<"ParseQuery", "createFederationPlan", "executeFederationPlan">>
StagesOf(op) == IF op = "ExecuteQuery" THEN QueryStages ELSE FederationStages
StageAfter(op, stage) ==
  LET k == CHOOSE i \in DOMAIN StagesOf(op) : StagesOf(op)[i] = stage
  IN IF k = Len(StagesOf(op)) THEN "returned" ELSE StagesOf(op)[k + 1]

\* ExecuteQuery counts the request before its first stage.
CountedAtEntry(op) == op = "ExecuteQuery"

CountIdle ==
  /\ queryCount = 0 /\ errorCount = 0
  /\ enginePc = <<>> /\ engineOp = <<>> /\ failsAt = <<>>

\* NewEngine: both counters are zero.
CountInit ==
  /\ queryCount = 0 /\ errorCount = 0
  /\ enginePc = [c \in EngineCallers |-> "idle"]
  /\ engineOp = [c \in EngineCallers |-> "none"]
  /\ failsAt = [c \in EngineCallers |-> "none"]

\* ExecuteQuery is called: a nil request is refused before anything is
\* counted, any other request is counted.
ExecuteQueryCalled(c) ==
  /\ enginePc[c] = "idle"
  /\ engineOp' = [engineOp EXCEPT ![c] = "ExecuteQuery"]
  /\ \E requestNil \in BOOLEAN :
       IF requestNil
       THEN /\ enginePc' = [enginePc EXCEPT ![c] = "returned"]
            /\ UNCHANGED <<queryCount, failsAt>>
       ELSE /\ enginePc' = [enginePc EXCEPT ![c] = QueryStages[1]]
            /\ queryCount' = IF CountedAtEntry("ExecuteQuery") THEN queryCount + 1
                             ELSE queryCount
            /\ \E stage \in Range(QueryStages) \cup {"none"} :
                 failsAt' = [failsAt EXCEPT ![c] = stage]
  /\ UNCHANGED errorCount
  /\ UNCHANGED <<execVars, depVars, callVars, planVars, resVars, parseVars, healthVars,
                 dirVars, mergeVars, batchVars>>

\* ExecuteFederationQuery is called: nothing is counted yet.
ExecuteFederationQueryCalled(c) ==
  /\ enginePc[c] = "idle"
  /\ engineOp' = [engineOp EXCEPT ![c] = "ExecuteFederationQuery"]
  /\ enginePc' = [enginePc EXCEPT ![c] = FederationStages[1]]
  /\ \E stage \in Range(FederationStages) \cup {"none"} :
       failsAt' = [failsAt EXCEPT ![c] = stage]
  /\ UNCHANGED <<queryCount, errorCount>>
  /\ UNCHANGED <<execVars, depVars, callVars, planVars, resVars, parseVars, healthVars,
                 dirVars, mergeVars, batchVars>>

\* One stage of either method returns: with an error the error is counted
\* and the method returns; after its last stage ExecuteFederationQuery
\* counts the request.
EngineStage(c) ==
  /\ enginePc[c] \notin {"idle", "returned"}
  /\ IF failsAt[c] = enginePc[c]
     THEN /\ errorCount' = errorCount + 1
          /\ enginePc' = [enginePc EXCEPT ![c] = "returned"]
          /\ UNCHANGED queryCount
     ELSE /\ enginePc' = [enginePc EXCEPT ![c] = StageAfter(engineOp[c], enginePc[c])]
          /\ queryCount' = IF /\ StageAfter(engineOp[c], enginePc[c]) = "returned"
                              /\ ~CountedAtEntry(engineOp[c])
                           THEN queryCount + 1 ELSE queryCount
          /\ UNCHANGED errorCount
  /\ UNCHANGED <<engineOp, failsAt>>
  /\ UNCHANGED <<execVars, depVars, callVars, planVars, resVars, parseVars, healthVars,
                 dirVars, mergeVars, batchVars>>

CountNext ==
  \E c \in EngineCallers :
    \/ ExecuteQueryCalled(c)
    \/ ExecuteFederationQueryCalled(c)
    \/ EngineStage(c)

\* =====================================================================
\* WASMCaller.CallBatch (pkg/caller)
\* =====================================================================
BatchIdle ==
  /\ batchPc = "idle" /\ cancelled = FALSE /\ workerPc = <<>> /\ workerResult = <<>>
  /\ resultChan = <<>> /\ resultClosed = FALSE /\ batchResponses = <<>>
  /\ callErrors = <<>> /\ batchErr = NoErr

MaxBatchCalls == 3
BatchCalls == DOMAIN workerPc
CallFailed == "service error"
\* What Call returns for the call at index idx: its response, or an error.
CallResults(idx) ==
  { [index |-> idx, response |-> [Call |-> idx], err |-> NoErr],
    [index |-> idx, response |-> NilResponse, err |-> CallFailed] }

\* The caller holds a slice of calls and a context that is not yet cancelled.
BatchInit ==
  /\ batchPc = "called" /\ cancelled = FALSE
  /\ \E n \in 0..MaxBatchCalls : workerPc = [idx \in 1..n |-> "idle"]
  /\ workerResult = [idx \in BatchCalls |-> NilResponse]
  /\ resultChan = <<>> /\ resultClosed = FALSE /\ batchResponses = <<>>
  /\ callErrors = <<>> /\ batchErr = NoErr

\* CallBatch up to the collection loop: an empty batch returns nil, nil; else
\* the result slice is made and one goroutine per call is started.
CallBatch ==
  /\ batchPc = "called"
  /\ IF BatchCalls = {}
       THEN batchPc' = "returned" /\ UNCHANGED <<workerPc, batchResponses>>
       ELSE /\ batchPc' = "collect"
            /\ workerPc' = [idx \in BatchCalls |-> "call"]
            /\ batchResponses' = [idx \in BatchCalls |-> NilResponse]
  /\ UNCHANGED <<cancelled, workerResult, resultChan, resultClosed, callErrors, batchErr>>
  /\ UNCHANGED <<execVars, depVars, callVars, planVars, resVars, parseVars, healthVars, dirVars,
                 mergeVars, countVars>>

\* The caller's context is cancelled.
CancelContext ==
  /\ batchPc \in {"called", "collect"} /\ ~cancelled
  /\ cancelled' = TRUE
  /\ UNCHANGED <<batchPc, workerPc, workerResult, resultChan, resultClosed, batchResponses,
                 callErrors, batchErr>>
  /\ UNCHANGED <<execVars, depVars, callVars, planVars, resVars, parseVars, healthVars, dirVars,
                 mergeVars, countVars>>

\* resp, err := c.Call(ctx, serviceCall)
WorkerCall(idx) ==
  /\ workerPc[idx] = "call"
  /\ \E result \in CallResults(idx) : workerResult' = [workerResult EXCEPT ![idx] = result]
  /\ workerPc' = [workerPc EXCEPT ![idx] = "select"]
  /\ UNCHANGED <<batchPc, cancelled, resultChan, resultClosed, batchResponses, callErrors,
                 batchErr>>
  /\ UNCHANGED <<execVars, depVars, callVars, planVars, resVars, parseVars, healthVars, dirVars,
                 mergeVars, countVars>>

\* The goroutine's select: the buffered channel always has room, so the send
\* is ready; once the context is cancelled ctx.Done() is ready too and the
\* select takes either branch.
WorkerSelect(idx) ==
  /\ workerPc[idx] = "select"
  /\ \/ /\ Len(resultChan) < Cardinality(BatchCalls)
        /\ resultChan' = Append(resultChan, workerResult[idx])
     \/ /\ cancelled
        /\ UNCHANGED resultChan
  /\ workerPc' = [workerPc EXCEPT ![idx] = "done"]
  /\ UNCHANGED <<batchPc, cancelled, workerResult, resultClosed, batchResponses, callErrors,
                 batchErr>>
  /\ UNCHANGED <<execVars, depVars, callVars, planVars, resVars, parseVars, healthVars, dirVars,
                 mergeVars, countVars>>

\* wg.Wait(); close(resultChan)
CloseResults ==
  /\ batchPc = "collect" /\ ~resultClosed
  /\ \A idx \in BatchCalls : workerPc[idx] = "done"
  /\ resultClosed' = TRUE
  /\ UNCHANGED <<batchPc, cancelled, workerPc, workerResult, resultChan, batchResponses,
                 callErrors, batchErr>>
  /\ UNCHANGED <<execVars, depVars, callVars, planVars, resVars, parseVars, healthVars, dirVars,
                 mergeVars, countVars>>

\* One turn of `for result := range resultChan`.
CollectResult ==
  /\ batchPc = "collect" /\ resultChan # <<>>
  /\ LET result == Head(resultChan)
     IN IF result.err # NoErr
          THEN /\ callErrors' = Append(callErrors, [index |-> result.index, err |-> result.err])
               /\ UNCHANGED batchResponses
          ELSE /\ batchResponses' = [batchResponses EXCEPT ![result.index] = result.response]
               /\ UNCHANGED callErrors
  /\ resultChan' = Tail(resultChan)
  /\ UNCHANGED <<batchPc, cancelled, workerPc, workerResult, resultClosed, batchErr>>
  /\ UNCHANGED <<execVars, depVars, callVars, planVars, resVars, parseVars, healthVars, dirVars,
                 mergeVars, countVars>>

\* The loop ends on the closed, drained channel; CallBatch returns.
BatchReturn ==
  /\ batchPc = "collect" /\ resultChan = <<>> /\ resultClosed
  /\ batchPc' = "returned"
  /\ batchErr' = IF Len(callErrors) > 0 THEN "BatchError" ELSE NoErr
  /\ UNCHANGED <<cancelled, workerPc, workerResult, resultChan, resultClosed, batchResponses,
                 callErrors>>
  /\ UNCHANGED <<execVars, depVars, callVars, planVars, resVars, parseVars, healthVars, dirVars,
                 mergeVars, countVars>>

BatchNext ==
  \/ CallBatch
  \/ CancelContext
  \/ \E idx \in BatchCalls : WorkerCall(idx)
  \/ \E idx \in BatchCalls : WorkerSelect(idx)
  \/ CloseResults
  \/ CollectResult
  \/ BatchReturn

\* =====================================================================
\* Specifications
\* =====================================================================
Init == ExecInit /\ DepsIdle /\ CallIdle /\ PlanIdle /\ ResolveIdle /\ ParseIdle /\ HealthIdle
  /\ DirectivesIdle /\ MergeIdle /\ CountIdle /\ BatchIdle
\* Every started goroutine, the clock and the coordinator eventually run.
Spec == Init /\ [][ExecNext]_vars /\ WF_vars(ExecNext)

\* The same request, with the plans that differ only in the order of their
\* sub-queries or in the merge strategy taken once.
ServiceOrder == <<"users-service", "products-service", "reviews-service">>
Position(svc) == CHOOSE k \in DOMAIN ServiceOrder : ServiceOrder[k] = svc
InitRequest ==
  /\ Init
  /\ mergeStrategy = "shallow"
  /\ \A i, j \in DOMAIN subQueries : i < j => Position(subQueries[i]) < Position(subQueries[j])
SpecRequest == InitRequest /\ [][ExecNext]_vars /\ WF_vars(ExecNext)

ExecIdle ==
  /\ subQueries = <<>> /\ mergeStrategy = "shallow" /\ pc = "idle" /\ now = 0
  /\ taskPc = <<>> /\ startTime = <<>> /\ taskResponse = <<>>
  /\ responseCh = <<>> /\ errCh = <<>> /\ closerPc = "idle"
  /\ responses = <<>> /\ completed = 0 /\ coordErr = NoErr
  /\ finalResponse = NilResponse /\ reqErr = NoErr
  /\ isHealthy = <<>> /\ called = {}

InitDeps == ExecIdle /\ DepsInit /\ CallIdle /\ PlanIdle /\ ResolveIdle /\ ParseIdle /\ HealthIdle
  /\ DirectivesIdle /\ MergeIdle /\ CountIdle /\ BatchIdle
SpecDeps == InitDeps /\ [][DepsNext]_vars /\ WF_vars(DepsNext)

\* Every runnable goroutine, the host and every timer eventually runs.
InitCall == ExecIdle /\ DepsIdle /\ CallInit /\ PlanIdle /\ ResolveIdle /\ ParseIdle /\ HealthIdle
  /\ DirectivesIdle /\ MergeIdle /\ CountIdle /\ BatchIdle
SpecCall == InitCall /\ [][CallNext]_vars /\ WF_vars(CallNext)

\* Planning runs to its end.
InitPlan == ExecIdle /\ DepsIdle /\ CallIdle /\ PlanInit /\ ResolveIdle /\ ParseIdle /\ HealthIdle
  /\ DirectivesIdle /\ MergeIdle /\ CountIdle /\ BatchIdle
SpecPlan == InitPlan /\ [][PlanNext]_vars /\ WF_vars(PlanNext)

\* Entity resolution: one call of a resolver method.
InitResolve == ExecIdle /\ DepsIdle /\ CallIdle /\ PlanIdle /\ ResolveInit /\ ParseIdle /\ HealthIdle
  /\ DirectivesIdle /\ MergeIdle /\ CountIdle /\ BatchIdle
SpecResolve == InitResolve /\ [][ResolveNext]_vars /\ WF_vars(ResolveNext)

\* Query analysis, alone or as the first steps of a request.
InitParse ==
  ExecIdle /\ DepsIdle /\ CallIdle /\ PlanIdle /\ ResolveIdle /\ ParseInit /\ HealthIdle
  /\ DirectivesIdle /\ MergeIdle /\ CountIdle /\ BatchIdle
SpecParse == InitParse /\ [][ParseNext]_vars /\ WF_vars(ParseNext)

\* Goroutines calling IsHealthy on one caller while time passes.
InitHealth ==
  ExecIdle /\ DepsIdle /\ CallIdle /\ PlanIdle /\ ResolveIdle /\ ParseIdle /\ HealthInit
  /\ DirectivesIdle /\ MergeIdle /\ CountIdle /\ BatchIdle
SpecHealth == InitHealth /\ [][HealthNext]_vars /\ WF_vars(HealthNext)

\* One call of an engine operation that receives federation directives.
InitDirectives ==
  /\ ExecIdle /\ DepsIdle /\ CallIdle /\ PlanIdle /\ ResolveIdle /\ ParseIdle /\ HealthIdle
  /\ DirectivesInit /\ MergeIdle /\ CountIdle /\ BatchIdle
SpecDirectives == InitDirectives /\ [][DirectivesNext]_vars /\ WF_vars(DirectivesNext)

\* One call of MergeResponses.
InitMerge ==
  /\ ExecIdle /\ DepsIdle /\ CallIdle /\ PlanIdle /\ ResolveIdle /\ ParseIdle /\ HealthIdle
  /\ DirectivesIdle /\ MergeInit /\ CountIdle /\ BatchIdle
SpecMerge == InitMerge /\ [][MergeNext]_vars /\ WF_vars(MergeNext)

InitMergeTwice ==
  /\ ExecIdle /\ DepsIdle /\ CallIdle /\ PlanIdle /\ ResolveIdle /\ ParseIdle /\ HealthIdle
  /\ DirectivesIdle /\ MergeTwiceInit /\ CountIdle /\ BatchIdle
SpecMergeTwice == InitMergeTwice /\ [][MergeTwiceNext]_vars /\ WF_vars(MergeTwiceNext)

\* Goroutines calling the engine, each running to its return.
InitCount ==
  /\ ExecIdle /\ DepsIdle /\ CallIdle /\ PlanIdle /\ ResolveIdle /\ ParseIdle /\ HealthIdle
  /\ DirectivesIdle /\ MergeIdle /\ CountInit /\ BatchIdle
SpecCount == InitCount /\ [][CountNext]_vars /\ WF_vars(CountNext)

\* One batch of calls, its goroutines, and a caller that may cancel.
InitBatch ==
  /\ ExecIdle /\ DepsIdle /\ CallIdle /\ PlanIdle /\ ResolveIdle /\ ParseIdle /\ HealthIdle
  /\ DirectivesIdle /\ MergeIdle /\ CountIdle /\ BatchInit
SpecBatch == InitBatch /\ [][BatchNext]_vars /\ WF_vars(BatchNext)

\* ------------------------------------------------ properties of the executor
Unconfigured(i) == subQueries[i] \notin ConfiguredServices
AllTasksDone == pc # "planned" /\ \A i \in TaskIds : taskPc[i] = "done"
\* Every goroutine has reported and the coordinator has taken every report.
AllOutcomesReceived == AllTasksDone /\ responseCh = <<>> /\ errCh = <<>>
Returned == pc \in {"returned", "done", "failed"}
Queued(i) == \E k \in DOMAIN responseCh : responseCh[k].index = i
\* Sub-query i's response was built, sent and taken off the channel.
Consumed(i) == taskResponse[i] # NilResponse /\ ~Queued(i)
\* The goroutine finished building its response before the shared deadline.
CompletedBeforeDeadline(i) ==
  taskResponse[i] # NilResponse /\ startTime[i] + taskResponse[i].Latency < QueryTimeout
SeqToSet(q) == {q[k] : k \in DOMAIN q}

\* C1: once every sub-query has reported its outcome (a response, an error
\* response or a per-task error) and the coordinator has taken them all, the
\* coordinator's return carries no error, so a failed sub-query never fails
\* the request.
C1_NoEscalation == (Returned /\ AllOutcomesReceived) => coordErr = NoErr

\* C2: a request whose plan names an unconfigured service fails only when
\* some other, configured sub-query's response was not collected.
C2_NotFoundIsLocal ==
  (pc = "failed" /\ \E i \in TaskIds : Unconfigured(i))
    => \E j \in TaskIds : ~Unconfigured(j) /\ responses[j] = NilResponse

\* C3 (as claimed): on a deadline return the slice holds every response that
\* was completed before the deadline.
C3_AllCompletedReturned ==
  (Returned /\ coordErr = DeadlineExceeded)
    => \A i \in TaskIds : CompletedBeforeDeadline(i) => responses[i] = taskResponse[i]

\* C3 (amended): on a deadline return the slice holds, at each sub-query's
\* index, exactly the responses the coordinator had received from the results
\* channel, and nil everywhere else.
C3_ReceivedReturned ==
  (Returned /\ coordErr = DeadlineExceeded)
    => /\ completed < N
       /\ \A i \in TaskIds :
            responses[i] = IF Consumed(i) THEN taskResponse[i] ELSE NilResponse

C3_Witness ==
  /\ pc = "returned" /\ coordErr = DeadlineExceeded
  /\ \E i, j \in TaskIds :
       /\ responses[i] # NilResponse
       /\ responses[j] = NilResponse /\ Queued(j) /\ CompletedBeforeDeadline(j)

\* C4: the coordinator is still in its collection loop only while some
\* sub-query's report is outstanding: when all have reported and been taken,
\* the loop condition is false and it returns.
C4_ReturnsWhenAllReported == (pc = "collecting" /\ AllOutcomesReceived) => completed >= N

\* C5: users-service answered with data, products-service's call timed out
\* and the coordinator returned normally: the request ends with a response
\* whose data has users, has no products, and whose error list is exactly
\* one entry naming products-service.
UsersOkProductsTimeout ==
  /\ pc # "planned"
  /\ \E i, j \in TaskIds :
       /\ subQueries[i] = "users-service" /\ subQueries[j] = "products-service"
       /\ taskResponse[i] # NilResponse /\ taskResponse[i].Error = NoErr
       /\ taskResponse[i].Data # Null /\ taskResponse[i].Errors = <<>>
       /\ taskResponse[j] # NilResponse /\ taskResponse[j].Error = TimeoutError

FinalErrors == IF finalResponse = NilResponse THEN {} ELSE SeqToSet(finalResponse.Errors)

C7_NoErrorDropped ==
  (pc \in {"done", "failed"} /\ AllOutcomesReceived)
    => \A i \in TaskIds :
         /\ Unconfigured(i) => \E e \in FinalErrors : e.Service = subQueries[i]
         /\ (taskResponse[i] # NilResponse /\ taskResponse[i].Error # NoErr)
              => ServiceErrorEntry(taskResponse[i]) \in FinalErrors
         /\ (taskResponse[i] # NilResponse /\ taskResponse[i].Error = NoErr)
              => \A e \in SeqToSet(taskResponse[i].Errors) :
                   \E f \in FinalErrors : ErrorKey(f) = ErrorKey(e)

\* C9: the merged response is the merge of the sub-queries' outcomes taken in
\* plan order, whatever order the goroutines completed in.
C9_OrderIndependent ==
  pc = "done"
    => finalResponse =
         MergeResponses([i \in TaskIds |-> taskResponse[i]], mergeStrategy, EnginePolicy).response

\* Sub-query 2 completed strictly before sub-query 1 and the request finished.
C9_Witness ==
  /\ pc = "done" /\ N >= 2
  /\ startTime[1] = startTime[2]
  /\ taskResponse[2].Latency < taskResponse[1].Latency
  /\ taskResponse[1].HasHeaders /\ taskResponse[2].HasHeaders

\* C10: a step of a sub-query goroutine changes neither the result slice nor
\* the counter, and only appends to a channel; the slice and the counter
\* change only in a coordinator step that takes the head of responseCh and
\* stores that response at its index.
C10_SingleWriter ==
  [][((taskPc' # taskPc /\ pc \notin {"planned", "dispatching"})
        => (/\ responses' = responses /\ completed' = completed
            /\ \/ responseCh' = responseCh
               \/ \E m \in SeqToSet(responseCh') : responseCh' = Append(responseCh, m)
            /\ \/ errCh' = errCh
               \/ \E m \in SeqToSet(errCh') : errCh' = Append(errCh, m)))
     /\ ((responses' # responses \/ completed' # completed)
           => (/\ taskPc' = taskPc /\ pc = "collecting" /\ responseCh # <<>>
               /\ responseCh' = Tail(responseCh)
               /\ responses' = [responses EXCEPT
                                  ![Head(responseCh).index] = Head(responseCh).response]
               /\ completed' = completed + 1))]_vars

C10_Witness ==
  /\ pc = "collecting"
  /\ \E i, j \in TaskIds : responses[i] # NilResponse /\ Queued(j)

\* C11: a sub-query whose service the health check reported unhealthy is
\* never handed to e.caller.Call; its goroutine ends with a response for
\* that service that has no data and carries the ServiceError, and that
\* response is on the results channel or in the result slice. Call is
\* invoked only for sub-queries found healthy.
C11_UnhealthyNotCalled ==
  \A i \in TaskIds :
    /\ i \in called => isHealthy[i] = "healthy"
    /\ isHealthy[i] = "unhealthy"
         => /\ i \notin called
            /\ taskPc[i] = "done"
            /\ taskResponse[i] # NilResponse
            /\ taskResponse[i].Service = subQueries[i]
            /\ taskResponse[i].Data = Null
            /\ taskResponse[i].Error =
                 "[SERVICE_CALL_ERROR] service is unhealthy: " \o subQueries[i]
            /\ Queued(i) \/ responses[i] = taskResponse[i]

\* One service was found unhealthy, the other was called, the request is done.
C11_Witness ==
  /\ pc = "done"
  /\ \E i, j \in TaskIds : isHealthy[i] = "unhealthy" /\ j \in called

\* The request's state as the specification names it: while executePlan
\* merges, the request is still short of done or failed.
RequestState == IF pc = "returned" THEN "collecting" ELSE pc
Rank(state) ==
  CASE state = "planned" -> 0
    [] state = "dispatching" -> 1
    [] state = "collecting" -> 2
    [] OTHER -> 3

\* C12: every step keeps the request's state or moves it to the next one of
\* planned, dispatching, collecting, done-or-failed; done and failed are
\* never left; and every request eventually is done or failed.
C12_StateOrder ==
  /\ [][(Rank(RequestState') \in {Rank(RequestState), Rank(RequestState) + 1})
         /\ (pc \in {"done", "failed"} => pc' = pc)]_vars
  /\ <>(pc \in {"done", "failed"})

C12_Witness == pc = "failed" /\ N = MaxSubQueries /\ called # {}

\* The merge is handed responses none of which is valid: each carries a
\* transport error or no data.
ZeroValidResponses ==
  /\ N > 0 /\ coordErr = NoErr
  /\ \A i \in TaskIds :
       /\ responses[i] # NilResponse
       /\ responses[i].Error # NoErr \/ responses[i].Data = Null

\* C16: when the request has ended and the merge was handed no valid
\* response, the request has failed with an error, or its response carries
\* the failures as errors and data null, under either merge strategy.
C16_ZeroValidIsFailure ==
  (pc \in {"done", "failed"} /\ ZeroValidResponses)
    => \/ pc = "failed" /\ reqErr # NoErr
       \/ /\ finalResponse # NilResponse
          /\ finalResponse.Data = Null
          /\ finalResponse.Errors # <<>>

RECURSIVE Descendants(_, _, _)
Descendants(E, frontier, seen) ==
  LET next == {e[2] : e \in {x \in E : x[1] \in frontier}} \ seen
  IN IF next = {} THEN seen ELSE Descendants(E, next, seen \cup next)
\* Some service reaches itself along one or more edges.
Cyclic(E) == \E e \in E : e[1] \in Descendants(E, {e[2]}, {e[2]})
PlanEdges == {e \in Edges : depMode = "plan" /\ e[2] \in dependencies[e[1]]}
FedEdges == UNION {{<<m, graph[m][k]>> : k \in DOMAIN graph[m]} : m \in DOMAIN graph}
DependencyCycle == Cyclic(PlanEdges) \/ Cyclic(FedEdges)
DepsReturned == depMode # "idle" /\ depPc = "done"

\* C6 (as claimed): with a cycle in the dependency graph, what is returned
\* is a PlanningError and no ordering.
C6_ReturnsPlanningError ==
  (DepsReturned /\ DependencyCycle) => IsPlanningError(depErr) /\ order = <<>>

\* C6 (amended): validation always terminates, and with a cycle in the
\* dependency graph ValidatePlan returns a PlanningError while
\* AnalyzeDependencies returns no ordering and an error that wraps a
\* PlanningError.
C6_CycleRejected ==
  /\ [](DepsReturned /\ DependencyCycle
          => /\ order = <<>>
             /\ depMode = "plan" => IsPlanningError(depErr)
             /\ depMode = "fed" => WrapsPlanningError(depErr))
  /\ <>DepsReturned

C6_Witness ==
  /\ depMode = "fed" /\ DepsReturned /\ Cyclic(FedEdges)
  /\ WrapsPlanningError(depErr) /\ Cardinality(DOMAIN graph) = 2

\* An entity provides a field it has without @external and requires the
\* fields named by the @requires of its fields.
FedFieldNames == {"email", "profile"}
Provides(entity, fieldName) ==
  \E k \in DOMAIN entity.Fields :
    entity.Fields[k].Name = fieldName /\ ~entity.Fields[k].External
Requires(entity, fieldName) ==
  \E k \in DOMAIN entity.Fields :
    \E r \in DOMAIN entity.Fields[k].Requires : entity.Fields[k].Requires[r] = fieldName
\* <<provider, dependent>> for every service that provides a field another
\* service requires and does not have itself.
ProviderEdges ==
  {e \in FedServices \X FedServices :
     /\ e[1] # e[2]
     /\ \E i, j \in DOMAIN entities :
          /\ entities[i].ServiceName = e[1] /\ entities[j].ServiceName = e[2]
          /\ entities[i].TypeName = entities[j].TypeName
          /\ \E f \in FedFieldNames :
               /\ Provides(entities[i], f)
               /\ Requires(entities[j], f) /\ ~Provides(entities[j], f)}
\* <<provider, dependent>> for the provider findFieldProvider resolves a
\* required field to.
ResolvedEdges ==
  {e \in FedServices \X FedServices :
     /\ e[1] # e[2]
     /\ \E j \in DOMAIN entities :
          /\ entities[j].ServiceName = e[2]
          /\ \E f \in FedFieldNames :
               /\ Requires(entities[j], f)
               /\ findFieldProvider(entities[j].TypeName, f, entities) = e[1]}
Involved == {entities[i].ServiceName : i \in DOMAIN entities}
ExactlyOnce(service) == Cardinality({k \in DOMAIN order : order[k] = service}) = 1
Before(a, b) == \E i, j \in DOMAIN order : i < j /\ order[i] = a /\ order[j] = b
AnalyzeDependenciesReturned == depMode = "fed" /\ depPc = "done"

C34_OnePerSubQuery ==
  /\ [](pc = "returned" /\ coordErr = NoErr =>
          /\ Len(responses) = N /\ completed = N
          /\ \A i \in TaskIds :
               /\ responses[i] # NilResponse
               /\ responses[i] = taskResponse[i]
               /\ responses[i].Service = subQueries[i])
  /\ [][\A i \in TaskIds : responses[i] # NilResponse => responses'[i] = responses[i]]_vars

\* Two sub-queries, the second of which completed first, were both collected
\* and the coordinator returned without error.
C34_Witness ==
  /\ pc = "returned" /\ coordErr = NoErr /\ N = 2
  /\ \A i \in TaskIds : responses[i] # NilResponse /\ responses[i].Service = subQueries[i]
  /\ startTime[1] = startTime[2]
  /\ taskResponse[2].Latency < taskResponse[1].Latency

\* make(chan ..., len(subQueries)): the capacity of responseCh and of errCh.
ChannelCapacity == N
\* The goroutine of sub-query i has yet to report.
YetToReport(i) == taskPc[i] \in {"lookup", "health", "call"}

\* C35: a goroutine that is about to report finds room in the channel it
\* reports on and finds that channel open, also after the coordinator has
\* returned on the deadline; the channels are closed only when every
\* goroutine has finished; and a goroutine that has yet to report can always
\* take its next step, whatever the coordinator and the other goroutines do.
C35_TasksNeverBlock ==
  /\ [](\A i \in TaskIds :
          YetToReport(i) => /\ Len(responseCh) < ChannelCapacity
                          /\ Len(errCh) < ChannelCapacity
                          /\ ~ResponseChClosed /\ ~ErrChClosed)
  /\ []((ResponseChClosed \/ ErrChClosed) => \A i \in TaskIds : taskPc[i] = "done")
  /\ [][Len(responseCh') > Len(responseCh) \/ Len(errCh') > Len(errCh) => closerPc = "wait"]_vars
  /\ [](\A i \in TaskIds :
          YetToReport(i) => ENABLED (TaskLookup(i) \/ TaskHealth(i) \/ TaskCall(i)))

\* The coordinator has returned on the deadline, and a goroutine reports
\* afterwards: its response is in the channel, which is still open.
C35_Witness ==
  /\ pc = "failed" /\ coordErr = DeadlineExceeded
  /\ \E i \in TaskIds : Queued(i) /\ startTime[i] + taskResponse[i].Latency >= QueryTimeout
  /\ \A i \in TaskIds : taskPc[i] = "done"
  /\ closerPc = "closed"

\* ------------------------------------------- properties of a service call
\* C8: every call is given exactly one outcome: never two, and eventually
\* every call has returned with one, however many calls are in flight.
C8_ExactlyOneOutcome ==
  /\ [](\A c \in DOMAIN outcomes : Len(outcomes[c]) <= 1)
  /\ <>(\A c \in DOMAIN callPc : callPc[c] = "returned" /\ Len(outcomes[c]) = 1)

\* The waiter of call c timed out and its handler has been closed.
TimedOutAndClosed(c) ==
  callPc[c] = "returned" /\ outcomes[c] = <<"timeout">>
    /\ responseClosed[c] /\ errorClosed[c]

\* C36: a callback the host runs for a call whose waiter has timed out and
\* whose handler is closed sends on no closed channel (nothing panics) and
\* leaves the outcome the caller was given as it is.
C36_LateCallbackDiscarded ==
  [][\A c \in DOMAIN callPc :
       (TimedOutAndClosed(c) /\ deliveries'[c] > deliveries[c])
         => (~crashed' /\ outcomes' = outcomes)]_vars

\* C37: a call whose callback the host ran before the waiter's timer fired
\* (the callback has run and what it delivered is not still queued behind the
\* timer) is never given a timeout as its outcome, whether the callback ran
\* before or after the handler was created.
C37_DeliveredNeverTimesOut ==
  [][\A c \in DOMAIN callPc :
       (/\ deliveries[c] > 0 /\ responseChan[c] = <<>> /\ errorChan[c] = <<>>
        /\ Len(outcomes'[c]) > Len(outcomes[c]))
         => outcomes'[c][Len(outcomes'[c])] # "timeout"]_vars

\* ------------------------------------------------- properties of the planner
\* The request `{ users { id name } products { id name } }` planned against
\* users-service and products-service.
UsersProductsQuery ==
  <<Selection("users", Scalars(<<"id", "name">>)),
    Selection("products", Scalars(<<"id", "name">>))>>
UsersProductsRequest ==
  /\ planMode = "engine" /\ query = UsersProductsQuery
  /\ {services[i].Name : i \in DOMAIN services} = {"users-service", "products-service"}
PlanCreated == planMode = "engine" /\ planPc \notin {"create", "dependencies"} /\ services # <<>>
DependsOn(p, service, dep) == dep \in Range(Get(p.Dependencies, service))

\* C13: the plan CreateExecutionPlan returns for the request
\* `{ users { id name } products { id name } }` against users-service and
\* products-service has exactly two sub-queries, one per service, and
\* neither service depends on the other.
C13_TwoIndependentSubQueries ==
  (UsersProductsRequest /\ PlanCreated)
    => /\ Len(plan.SubQueries) = 2
       /\ {plan.SubQueries[i].ServiceName : i \in DOMAIN plan.SubQueries}
            = {"users-service", "products-service"}
       /\ ~DependsOn(plan, "users-service", "products-service")
       /\ ~DependsOn(plan, "products-service", "users-service")

\* ExecuteQuery for a request whose planning has returned, when every
\* service of the plan is healthy and answers with data: a planning error
\* fails the request, otherwise the answers are merged by the plan's strategy.
ExecuteQueryAnswered(p, err) ==
  IF err # NilError
  THEN [response |-> NilResponse, err |-> Wrap("planning failed", err)]
  ELSE LET answers == [i \in DOMAIN p.SubQueries |->
                         CallResponse(p.SubQueries[i].ServiceName, "data", 0)]
           m == MergeResponses(answers, p.MergeStrategy, EnginePolicy)
       IN [response |-> m.response,
           err |-> IF m.err = NoErr THEN NilError
                   ELSE [Text |-> "execution failed: response merging failed: " \o m.err]]

\* C14: the request `{ users { id name } products { id name } }`, with
\* users-service and products-service healthy and answering with data, ends
\* with a response whose data has the keys users and products, both
\* populated, and whose error list is empty.
C14_BothKeysPopulated ==
  (UsersProductsRequest /\ planPc = "returned")
    => LET r == ExecuteQueryAnswered(returnedPlan, planErr) IN
         /\ r.err = NilError
         /\ r.response # NilResponse
         /\ IsObj(r.response.Data)
         /\ \A key \in {"users", "products"} :
              key \in DOMAIN r.response.Data.o /\ r.response.Data.o[key] # Null
         /\ r.response.Errors = <<>>

PositionsOf(subQs, service) == {i \in DOMAIN subQs : subQs[i].ServiceName = service}
Reordered == planMode # "idle" /\ planPc = "ordered"

OptimizedCyclicPlan ==
  /\ planMode = "optimizer" /\ planPc = "optimized" /\ plan # NilPlan
  /\ checkCircularDependencies(plan.Dependencies) # NilError

\* C20: when OptimizePlan has returned for a plan whose Dependencies hold a
\* cycle, it has returned no error and every sub-query of the plan it was
\* handed is still present in the plan it returned.
C20_CycleKeepsSubQueries ==
  OptimizedCyclicPlan
    => /\ optErr = NilError
       /\ Range(plan.SubQueries) \subseteq Range(optimizedPlan.SubQueries)

\* C39: in every plan CreateExecutionPlan returns, every service named in
\* Dependencies, as a key or in a list, is the ServiceName of a sub-query of
\* the plan, so that validateDependencies accepts the plan.
C39_DependenciesInPlan ==
  (PlanCreated /\ plan # NilPlan)
    => LET names == {plan.SubQueries[i].ServiceName : i \in DOMAIN plan.SubQueries}
       IN /\ \A service \in DOMAIN plan.Dependencies :
               service \in names /\ Range(plan.Dependencies[service]) \subseteq names
          /\ validateDependencies(plan.Dependencies, plan.SubQueries) = NilError

\* --------------------------------------------- properties of entity resolution
\* The representation is of the entity's type and lacks one of its key fields.
MissingKeyField(e, r) ==
  /\ e # NilEntity /\ r.TypeName = e.TypeName
  /\ \E k \in RequiredKeys(e) : k \notin DOMAIN r.Representation
\* A service call was issued whose representations variable carries r.
Dispatched(r) ==
  \E c \in DOMAIN entityCalls :
    /\ entityCalls[c].TypeName = r.TypeName
    /\ \E j \in DOMAIN entityCalls[c].Representations :
         LET sent == entityCalls[c].Representations[j] IN
           [k \in DOMAIN sent \ {"__typename"} |-> sent[k]] = r.Representation

\* C17: once single or batch resolution has returned, every representation
\* it was handed that lacks a key field of its entity was rejected with a
\* ValidationError and no _entities call was issued for it.
C17_MissingKeyRejected ==
  (resPc = "returned" /\ resOp \in {"ResolveEntity", "ResolveBatchEntities"}) =>
    \A i \in DOMAIN resRepresentations :
      MissingKeyField(resEntity, resRepresentations[i])
        => IsValidationError(resErr) /\ ~Dispatched(resRepresentations[i])


\* ------------------------------------------------ properties of query analysis
\* The references from a selection set to the selection sets of its selections.
DocumentEdges ==
  {e \in (DOMAIN document.SelectionSets) \X (DOMAIN document.SelectionSets) :
     \E k \in DOMAIN document.SelectionSets[e[1]] :
       document.SelectionSets[e[1]][k].SelectionSet = e[2]}
CyclicDocument == parseMode = "analyze" /\ Cyclic(DocumentEdges)
\* A bound on the complexity of a document: the fields along every path that
\* enters no selection set twice.
ComplexityBound ==
  LET sets == DOMAIN document.SelectionSets
      m == CHOOSE x \in 0..2 : /\ \A r \in sets : Len(document.SelectionSets[r]) <= x
                               /\ \E r \in sets : Len(document.SelectionSets[r]) = x
      RECURSIVE Paths(_)
      Paths(k) == IF k = 0 THEN 0 ELSE m * (1 + Paths(k - 1))
  IN Paths(Cardinality(sets))

\* The nesting of the selection sets of a parsed query: the depth of its
\* deepest field that has a selection set.
Nesting == Cardinality(DOMAIN document.SelectionSets) - 1
DepthCalculated == parseMode = "request" /\ parsePc \notin {"parse", "depth"}

\* C22 (as claimed): when the nesting exceeds the ceiling, a warning is
\* logged and the depth returned is no greater than the ceiling.
C22_DepthWithinCeiling ==
  (DepthCalculated /\ Nesting > maxAllowedDepth)
    => depthWarned /\ parsedDepth <= maxAllowedDepth

\* C22 (amended): when the nesting exceeds the ceiling, a warning is logged
\* and the depth returned is the ceiling plus one; up to the ceiling the
\* depth is the nesting and nothing is logged; and the analysis hands the
\* request on without an error.
C22_DepthCapped ==
  DepthCalculated
    => /\ IF Nesting > maxAllowedDepth
          THEN depthWarned /\ parsedDepth = maxAllowedDepth + 1
          ELSE ~depthWarned /\ parsedDepth = Nesting
       /\ parsePc \in {"complexity", "limits"} => requestErr = NilError

\* A query nested two levels deeper than the ceiling has been analysed.
C22_Witness ==
  /\ DepthCalculated /\ parsePc = "limits" /\ requestErr = NilError
  /\ Nesting = maxAllowedDepth + 2
  /\ depthWarned /\ parsedDepth = maxAllowedDepth + 1

\* C23: a request whose query is nested deeper than the configured maximum
\* depth ends with a QueryComplexityError, returned as it is, and neither a
\* plan was created nor a sub-query dispatched for it.
C23_TooDeepRejected ==
  (parseMode = "request" /\ parsePc \in {"plan", "execute", "returned"}
     /\ maxQueryDepth > 0 /\ Nesting > maxQueryDepth)
    => /\ parsePc = "returned"
       /\ "Code" \in DOMAIN requestErr /\ requestErr.Code = "QUERY_COMPLEXITY_ERROR"
       /\ ~planMade /\ ~subQueriesSent

\* C21: on a document whose selection sets refer to each other in a cycle,
\* the depth and the complexity calculation come to an end, the recursion
\* never nests deeper than there are selection sets, and the values returned
\* are bounded by the size of the document.
C21_CyclicAnalysisTerminates ==
  /\ (CyclicDocument /\ parsePc = "parse") ~> (CyclicDocument /\ parsePc = "returned")
  /\ [](CyclicDocument => Len(calcStack) <= Cardinality(DOMAIN document.SelectionSets))
  /\ []((CyclicDocument /\ parsePc = "returned")
         => /\ parsedDepth <= Cardinality(DOMAIN document.SelectionSets)
            /\ parsedComplexity <= ComplexityBound)

\* Two selection sets that select each other as fields have been analysed.
C21_Witness ==
  /\ CyclicDocument /\ parsePc = "returned"
  /\ <<1, 2>> \in DocumentEdges /\ <<2, 1>> \in DocumentEdges
  /\ parsedDepth = 2 /\ parsedComplexity >= 2

\* =====================================================================
\* Properties of same-service merging
\* =====================================================================
\* The names a query text selects at the top of its selection set, in the
\* order of the text: the words one brace deep.
RECURSIVE ScanFields(_, _, _, _)
ScanFields(text, depth, word, found) ==
  LET flushed == IF word # "" THEN Append(found, word) ELSE found IN
    IF text = "" THEN flushed
    ELSE LET ch == SubSeq(text, 1, 1)
             rest == SubSeq(text, 2, Len(text))
         IN IF ch = "{" THEN ScanFields(rest, depth + 1, "", flushed)
            ELSE IF ch = "}" THEN ScanFields(rest, depth - 1, "", flushed)
            ELSE IF ch \in {" ", "\n"} THEN ScanFields(rest, depth, "", flushed)
            ELSE IF depth = 1 THEN ScanFields(rest, depth, word \o ch, found)
            ELSE ScanFields(rest, depth, "", found)
SelectedFields(queryText) == ScanFields(queryText, 0, "", <<>>)
NoDuplicates(q) == \A i, j \in DOMAIN q : q[i] = q[j] => i = j
SubQueriesFor(subQs, name) == SelectSeq(subQs, LAMBDA q : q.ServiceName = name)
SameServiceMerged == planMode = "optimizer" /\ planPc = "merged" /\ plan # NilPlan
MergedGroups ==
  {name \in PlanServices : Len(SubQueriesFor(plan.SubQueries, name)) > 1}

OnePerService ==
  \A name \in PlanServices :
    /\ Len(SubQueriesFor(optimizedPlan.SubQueries, name)) <= 1
    /\ Len(SubQueriesFor(plan.SubQueries, name)) > 0 =>
         Len(SubQueriesFor(optimizedPlan.SubQueries, name)) = 1
FieldsUnioned(name) ==
  LET group == SubQueriesFor(plan.SubQueries, name)
      merged == SubQueriesFor(optimizedPlan.SubQueries, name)[1]
  IN /\ NoDuplicates(SelectedFields(merged.Query))
     /\ Range(SelectedFields(merged.Query)) =
          UNION {Range(SelectedFields(group[i].Query)) : i \in DOMAIN group}
VariablesUnioned(name) ==
  LET group == SubQueriesFor(plan.SubQueries, name)
      merged == SubQueriesFor(optimizedPlan.SubQueries, name)[1]
  IN /\ DOMAIN merged.Variables = UNION {DOMAIN group[i].Variables : i \in DOMAIN group}
     /\ \A k \in DOMAIN merged.Variables :
          \E i \in DOMAIN group :
            k \in DOMAIN group[i].Variables /\ merged.Variables[k] = group[i].Variables[k]
MaxTimeoutKept(name) ==
  LET group == SubQueriesFor(plan.SubQueries, name)
      merged == SubQueriesFor(optimizedPlan.SubQueries, name)[1]
  IN /\ \E i \in DOMAIN group : merged.Timeout = group[i].Timeout
     /\ \A i \in DOMAIN group : merged.Timeout >= group[i].Timeout

\* C25: after the sub-queries of one service are merged the plan holds at
\* most one sub-query per service, and a merged sub-query selects each field
\* of the sub-queries it came from exactly once, carries the union of their
\* variables and the greatest of their timeouts.
C25_SameServiceMerged ==
  SameServiceMerged =>
    /\ OnePerService
    /\ \A name \in MergedGroups :
         FieldsUnioned(name) /\ VariablesUnioned(name) /\ MaxTimeoutKept(name)

\* What holds of the merge: one sub-query per service, the variables and
\* the timeout as stated; and the fields too when every merged query is
\* written one field to a line.
C25_MergedExceptFields ==
  SameServiceMerged =>
    /\ OnePerService
    /\ \A name \in MergedGroups :
         /\ VariablesUnioned(name) /\ MaxTimeoutKept(name)
         /\ (\A i \in DOMAIN plan.SubQueries :
               LET fields == SelectedFields(plan.SubQueries[i].Query)
               IN Len(fields) = 1 \/ Contains(plan.SubQueries[i].Query, "\n"))
            => FieldsUnioned(name)

\* =====================================================================
\* Properties of directive validation
\* =====================================================================
DirectivesReturned(op) == dirOp = op /\ dirPc = "returned"
\* The directive sets of the entities and of their fields.
DirectiveSetsOf(list) ==
  {list[i].Directives : i \in DOMAIN list} \cup
  UNION {{list[i].Fields[j].Directives : j \in DOMAIN list[i].Fields} : i \in DOMAIN list}
CarriesRequiresOnly(d) == d.Requires # NilDirective /\ d.External = NilDirective
CarriesBoth(d) == d.Requires # NilDirective /\ d.External # NilDirective
\* Every @key and the @provides of the set select fields in a valid form.
SelectionsValid(d) ==
  /\ \A i \in DOMAIN d.Keys : validateFieldSelection(d.Keys[i].Fields) = NilError
  /\ d.Provides # NilDirective => validateFieldSelection(d.Provides.Fields) = NilError

\* Where the combination is looked at: ProcessFederationDirectives fails on
\* entities that carry @requires without @external, and
\* ExecuteFederationQuery returns without ValidateDirectives having run.
CheckedAtValidationTime ==
  /\ DirectivesReturned("ProcessFederationDirectives")
       /\ (\E d \in DirectiveSetsOf(dirInput) : CarriesRequiresOnly(d))
     => dirErr # NilError /\ federatedSchema = NilDirective
  /\ DirectivesReturned("ExecuteFederationQuery") => ~directivesValidated

\* C26: ValidateDirectives rejects every directive set with @requires and no
\* @external and accepts every set with both; the check is made when
\* federation entities are validated, not while a query executes.
C26_RequiresNeedsExternal ==
  /\ DirectivesReturned("ValidateDirectives") /\ dirInput # NilDirective =>
       /\ CarriesRequiresOnly(dirInput) => dirErr # NilError
       /\ CarriesBoth(dirInput) => dirErr = NilError
  /\ CheckedAtValidationTime

\* C26, amended: a set with both directives is accepted when its @key and
\* @provides field selections are valid, and rejected otherwise.
C26_RequiresNeedsExternalValid ==
  /\ DirectivesReturned("ValidateDirectives") /\ dirInput # NilDirective =>
       /\ CarriesRequiresOnly(dirInput) => dirErr # NilError
       /\ CarriesBoth(dirInput) => (dirErr = NilError <=> SelectionsValid(dirInput))
  /\ CheckedAtValidationTime

\* ValidateDirectives has refused a set, otherwise valid, for its @requires
\* without @external.
C26_Witness ==
  /\ DirectivesReturned("ValidateDirectives") /\ dirInput # NilDirective
  /\ CarriesRequiresOnly(dirInput) /\ SelectionsValid(dirInput)
  /\ IsValidationError(dirErr)

\* =====================================================================
\* Properties of the response merger
\* =====================================================================
MergeReturned == mergePc = "returned"
MergedWith(strategy) ==
  /\ MergeReturned /\ mergeInput # <<>>
  /\ (IF mergePlan = NilPlan THEN "shallow" ELSE mergePlan.MergeStrategy) = strategy
\* The responses that carry an object as data and no transport error.
ObjectResponses ==
  SelectSeq(mergeInput, LAMBDA r : r.Error = NoErr /\ r.Data # Null /\ IsObj(r.Data))
SuppliedKeys == UNION {DOMAIN ObjectResponses[i].Data.o : i \in DOMAIN ObjectResponses}
\* The values the responses supply for a key, in the order of the responses.
Supplied(key) ==
  LET having == SelectSeq(ObjectResponses, LAMBDA r : key \in DOMAIN r.Data.o)
  IN [i \in DOMAIN having |-> having[i].Data.o[key]]
Earliest(values) == IF values = <<>> THEN Null ELSE values[1]
Latest(values) == IF values = <<>> THEN Null ELSE values[Len(values)]

\* C27: under a shallow merge, policy `first` keeps for every field the value
\* of the earliest response that supplies it and policy `last` the value of
\* the latest one.
C27_FirstAndLast ==
  MergedWith("shallow") /\ conflictPolicy \in {"first", "last"} =>
    \A key \in SuppliedKeys :
      mergeResult.response.Data.o[key] =
        IF conflictPolicy = "first" THEN Earliest(Supplied(key)) ELSE Latest(Supplied(key))

\* C27, amended: the same of the values that are not null; a null never
\* replaces a value, and any value replaces a null.
C27_FirstAndLastNonNull ==
  MergedWith("shallow") /\ conflictPolicy \in {"first", "last"} =>
    /\ mergeResult.err = NoErr
    /\ DOMAIN mergeResult.response.Data.o = SuppliedKeys
    /\ \A key \in SuppliedKeys :
         mergeResult.response.Data.o[key] =
           IF conflictPolicy = "first" THEN Earliest(NonNull(Supplied(key)))
           ELSE Latest(NonNull(Supplied(key)))

\* {"a":1} then {"a":2} have been merged into {"a":2} under policy `last`.
C27_Witness ==
  /\ MergedWith("shallow") /\ conflictPolicy = "last"
  /\ Supplied("a") = <<Num(1), Num(2)>>
  /\ mergeResult.response.Data = Obj([k \in {"a"} |-> Num(2)])

\* The responses whose error list reaches the merge: those without a
\* transport error.
Reporting(e) ==
  {i \in DOMAIN mergeInput : mergeInput[i].Error = NoErr /\ e \in Range(mergeInput[i].Errors)}
Occurrences(e, errs) ==
  Cardinality({i \in DOMAIN errs : errs[i].Message = e.Message /\ errs[i].Code = e.Code})

\* C28: when the merge returns a response, no two errors of its list have
\* the same message and code, and an error that two responses report is in
\* the list exactly once, under both merge strategies.
C28_ErrorsDeduplicated ==
  MergeReturned /\ mergeInput # <<>> /\ mergeResult.err = NoErr =>
    LET errs == mergeResult.response.Errors IN
      /\ \A i, j \in DOMAIN errs :
           errs[i].Message = errs[j].Message /\ errs[i].Code = errs[j].Code => i = j
      /\ Cardinality(Reporting(GqlError("boom", "X", ""))) >= 2 =>
           Occurrences(GqlError("boom", "X", ""), errs) = 1

\* The same, of the merges that had at least one response with data.
C28_DeduplicatedWithData ==
  /\ MergeReturned /\ mergeInput # <<>> /\ mergeResult.err = NoErr
  /\ \/ MergedWith("shallow")
     \/ \E i \in DOMAIN mergeInput : mergeInput[i].Error = NoErr /\ mergeInput[i].Data # Null
  => LET errs == mergeResult.response.Errors IN
       /\ \A i, j \in DOMAIN errs :
            errs[i].Message = errs[j].Message /\ errs[i].Code = errs[j].Code => i = j
       /\ Cardinality(Reporting(GqlError("boom", "X", ""))) >= 2 =>
            Occurrences(GqlError("boom", "X", ""), errs) = 1

\* m combines the objects a and b key by key: a key of one of them has that
\* object's value, and a key under which both hold an object has the
\* combination of the two.
RECURSIVE KeyByKey(_, _, _)
KeyByKey(a, b, m) ==
  /\ IsObj(m) /\ DOMAIN m.o = DOMAIN a.o \cup DOMAIN b.o
  /\ \A k \in DOMAIN m.o :
       IF k \notin DOMAIN b.o THEN m.o[k] = a.o[k]
       ELSE IF k \notin DOMAIN a.o THEN m.o[k] = b.o[k]
       ELSE IsObj(a.o[k]) /\ IsObj(b.o[k]) => KeyByKey(a.o[k], b.o[k], m.o[k])
\* How deep objects are found under the same keys of a and b.
RECURSIVE SharedDepth(_, _)
SharedDepth(a, b) ==
  LET shared == {k \in DOMAIN a.o \cap DOMAIN b.o : IsObj(a.o[k]) /\ IsObj(b.o[k])}
      depths == {1 + SharedDepth(a.o[k], b.o[k]) : k \in shared} \cup {0}
  IN CHOOSE d \in depths : \A e \in depths : e <= d
\* Two responses with objects as data were merged deeply under a policy that
\* does not refuse conflicts.
TwoObjectsMergedDeep ==
  /\ MergedWith("deep") /\ conflictPolicy # "error"
  /\ Len(ObjectResponses) = 2
  /\ \A i \in DOMAIN mergeInput : mergeInput[i].Error = NoErr /\ mergeInput[i].Data # Null

\* C29: a deep merge of two objects succeeds and combines them key by key,
\* recursively where both hold an object under the same key.
C29_DeepMergeRecursive ==
  TwoObjectsMergedDeep =>
    /\ mergeResult.err = NoErr
    /\ KeyByKey(mergeInput[1].Data, mergeInput[2].Data, mergeResult.response.Data)

\* C29, amended: it does so where objects are found under the same keys no
\* deeper than the maximum merge depth, and fails where they are found deeper.
C29_DeepMergeToMaxDepth ==
  TwoObjectsMergedDeep =>
    IF SharedDepth(mergeInput[1].Data, mergeInput[2].Data) <= MaxDepth
    THEN /\ mergeResult.err = NoErr
         /\ KeyByKey(mergeInput[1].Data, mergeInput[2].Data, mergeResult.response.Data)
    ELSE mergeResult.err # NoErr

\* {"a":{"x":1}} and {"a":{"y":2}} have been merged into {"a":{"x":1,"y":2}}.
C29_Witness ==
  /\ TwoObjectsMergedDeep
  /\ mergeInput[1].Data = Obj([k \in {"a"} |-> Obj([j \in {"x"} |-> Num(1)])])
  /\ mergeInput[2].Data = Obj([k \in {"a"} |-> Obj([j \in {"y"} |-> Num(2)])])
  /\ mergeResult.response.Data =
       Obj([k \in {"a"} |-> Obj([j \in {"x", "y"} |-> IF j = "x" THEN Num(1) ELSE Num(2)])])

\* C30: merging an empty list of responses returns a response whose data is
\* null, and no error, with a plan of either strategy and without a plan.
C30_EmptyMerge ==
  MergeReturned /\ mergeInput = <<>> =>
    /\ mergeResult.err = NoErr
    /\ mergeResult.response # NilResponse
    /\ mergeResult.response.Data = Null

\* An empty list has been merged without a plan.
C30_Witness ==
  /\ MergeReturned /\ mergeInput = <<>> /\ mergePlan = NilPlan
  /\ mergeResult.response.Data = Null

\* C31: a shallow merge of one response returns that response's data.
C31_SingletonIdentity ==
  MergedWith("shallow") /\ Len(mergeInput) = 1 =>
    /\ mergeResult.err = NoErr
    /\ mergeResult.response.Data = mergeInput[1].Data

\* The same of a response whose data is an object and whose call succeeded.
C31_ObjectSingletonIdentity ==
  /\ MergedWith("shallow") /\ Len(mergeInput) = 1
  /\ mergeInput[1].Error = NoErr /\ mergeInput[1].Data # Null
  => /\ mergeResult.err = NoErr
     /\ mergeResult.response.Data = mergeInput[1].Data

\* Both translations of the merger return the same.
HeapAgrees == mergePc \in {"returned", "repeated"} => mergeRuns[1] = mergeResult

CreatedMaps == InternResponses(<<>>, mergeInput).h

\* C33: after MergeResponses has run, once or twice, under either strategy
\* and any conflict policy, every map of every response (its data, the
\* objects nested in it, its metadata) holds what it held at creation, and
\* the responses hold the same maps, errors and error.
C33_ResponsesNotMutated ==
  mergePc \in {"returned", "repeated"} =>
    /\ SubSeq(mergeHeap, 1, Len(CreatedMaps)) = CreatedMaps
    /\ \A i \in DOMAIN mergeInput :
         /\ Deref(mergeHeap, mergeRefs[i].Data) = mergeInput[i].Data
         /\ Deref(mergeHeap, mergeRefs[i].Metadata) = mergeInput[i].Metadata
         /\ mergeRefs[i].Errors = mergeInput[i].Errors

\* A deep merge under policy `merge` has combined nested objects and the
\* metadata of two responses, and written only to maps of its own.
C33_Witness ==
  /\ mergePc = "returned" /\ MergedWith("deep") /\ conflictPolicy = "merge"
  /\ Len(mergeInput) = 2 /\ mergeResult.err = NoErr
  /\ \A i \in 1..2 : mergeInput[i].Data # Null /\ "a" \in DOMAIN mergeInput[i].Data.o
  /\ mergeInput[1].Data # mergeInput[2].Data
  /\ Len(mergeHeap) > Len(CreatedMaps)
  /\ SubSeq(mergeHeap, 1, Len(CreatedMaps)) = CreatedMaps

\* =====================================================================
\* Properties of the engine's counters
\* =====================================================================
\* C38: at every point of every interleaving of calls of ExecuteQuery and
\* ExecuteFederationQuery the engine has counted no more errors than queries.
C38_ErrorsWithinQueries == errorCount <= queryCount

\* C38, for ExecuteQuery alone: as long as only ExecuteQuery has been called,
\* no more errors than queries are counted.
C38_QueryErrorsWithinQueries ==
  (\A c \in DOMAIN engineOp : engineOp[c] # "ExecuteFederationQuery")
    => errorCount <= queryCount

\* ------------------------------------------------- properties of CallBatch
Accounted(idx) ==
  \/ batchResponses[idx] # NilResponse /\ batchResponses[idx] = workerResult[idx].response
  \/ batchErr # NoErr /\ \E k \in DOMAIN callErrors : callErrors[k].index = idx

\* C40: when CallBatch returns, every call index either holds that call's
\* response in the result slice or is counted in the returned batch error,
\* also when the context was cancelled while the calls were completing.
C40_EveryCallAccounted ==
  batchPc = "returned" => \A idx \in BatchCalls : Accounted(idx)

\* The same without a cancellation.
C40_AccountedUnlessCancelled ==
  (batchPc = "returned" /\ ~cancelled) => \A idx \in BatchCalls : Accounted(idx)

\* =====================================================================
\* Properties of the health cache
\* =====================================================================
AnsweredFromCache(c) == healthCalls[c].pc = "returned" /\ healthCalls[c].from = "cache"
AnsweredFresh(c) == healthCalls[c].pc = "returned" /\ healthCalls[c].from = "fresh"
\* The age of the entry a call loaded, at the time the call tested it.
LoadedAge(c) == healthCalls[c].since - healthCalls[c].loaded.LastCheck
InsideIsHealthy(c) == healthCalls[c].pc \in {"load", "compare", "store"}

\* C24: IsHealthy answers from a cache entry only while the entry's age is
\* below the configured time; without such an entry it makes a fresh check,
\* whose result and timestamp replace the entry; and a goroutine inside
\* IsHealthy can always take its next step, whatever the others are doing.
C24_HealthCacheTTL ==
  /\ [](\A c \in HealthCallers :
          /\ AnsweredFromCache(c) =>
               /\ healthCalls[c].loaded # NoEntry
               /\ LoadedAge(c) < HealthCheckCache
               /\ healthCalls[c].answer = healthCalls[c].loaded.Healthy
          /\ AnsweredFresh(c) =>
               /\ healthCalls[c].loaded = NoEntry \/ LoadedAge(c) >= HealthCheckCache
               /\ healthCalls[c].status = HealthStatus(healthCalls[c].answer, healthCalls[c].since)
          /\ InsideIsHealthy(c) => ENABLED HealthStep(c))
  /\ [][\A c \in HealthCallers :
          healthCalls[c].pc = "store" /\ healthCalls'[c].pc = "returned" =>
            healthCache'[healthCalls[c].service] = healthCalls[c].status]_vars

\* A stale entry made one goroutine check afresh, and another was answered
\* from the entry that replaced it.
C24_Witness ==
  \E c, d \in HealthCallers :
    /\ AnsweredFresh(c) /\ healthCalls[c].loaded # NoEntry
    /\ AnsweredFromCache(d) /\ healthCalls[d].service = healthCalls[c].service
    /\ healthCalls[d].loaded = healthCalls[c].status

====
